------------------------------- MODULE BPlusEdits -------------------------------
(***************************************************************************)
(* TLAPS lemmas about BPlusTree: nodes have summaries that fit their       *)
(* children's, appending keeps them, and an insert or a delete appends      *)
(* nodes that fit and whose keys are those it should leave.                *)
(***************************************************************************)
EXTENDS BPlusTreeInv, NatLemmas, FiniteSetTheorems

-----------------------------------------------------------------------------
(* Sequences with a part of them replaced.                                 *)

\* y is x with r in place of some elements from i on, and what came after is moved by d.
Moved(x, y, r, i, m, last, d) ==
  /\ \A j \in 1..(i - 1) : y[j] = x[j]
  /\ \A a \in 1..m : y[i - 1 + a] = r[a]
  /\ \A j \in (i + m)..last : y[j] = x[j - d]

\* The arguments of a Splice, its result t, and what t is.
Spliced(S, s, r, i, n, d, t) ==
  /\ s \in Seq(S) /\ r \in Seq(S) /\ n \in Nat /\ i \in Nat /\ i >= 1 /\ i + n <= Len(s) + 1
  /\ d = Len(r) - n /\ t = Splice(s, i, n, r)

SplicedAs(S, s, r, i, n, t) ==
  /\ t \in Seq(S) /\ Len(t) = Len(s) - n + Len(r)
  /\ \A j \in 1..(i - 1) : t[j] = s[j]
  /\ \A a \in 1..Len(r) : t[i - 1 + a] = r[a]
  /\ \A j \in (i + Len(r))..(Len(s) - n + Len(r)) : t[j] = s[j - Len(r) + n]

LEMMA SpliceIs ==
  ASSUME NEW S, NEW s \in Seq(S), NEW r \in Seq(S), NEW i \in 1..(Len(s) + 1), NEW n \in Nat,
         i + n <= Len(s) + 1
  PROVE  SplicedAs(S, s, r, i, n, Splice(s, i, n, r))
<1> DEFINE a == SubSeq(s, 1, i - 1)
           b == SubSeq(s, i + n, Len(s))
<1>1. a \in Seq(S) /\ Len(a) = i - 1 /\ \A j \in 1..(i - 1) : a[j] = s[j]
  OBVIOUS
<1>2. b \in Seq(S) /\ Len(b) = Len(s) - (i + n) + 1 /\ \A j \in 1..Len(b) : b[j] = s[i + n + j - 1]
  OBVIOUS
<1>3. Splice(s, i, n, r) = a \o r \o b
  BY DEF Splice
<1> HIDE DEF a, b
<1>4. a \o r \in Seq(S) /\ Len(a \o r) = i - 1 + Len(r)
  BY <1>1
<1>5. \A j \in 1..(i - 1) : (a \o r)[j] = s[j]
  BY <1>1
<1>6. \A j \in 1..Len(r) : (a \o r)[i - 1 + j] = r[j]
  BY <1>1
<1> DEFINE c == a \o r
<1> HIDE DEF c
<1>7. c \o b \in Seq(S) /\ Len(c \o b) = Len(s) - n + Len(r)
  <2>1. c \in Seq(S) /\ b \in Seq(S) /\ Len(c) = i - 1 + Len(r) /\ Len(b) = Len(s) - (i + n) + 1
    BY <1>2, <1>4 DEF c
  <2>4. c \in Seq(S) /\ b \in Seq(S)
    BY <2>1
  <2>2. c \o b \in Seq(S) /\ Len(c \o b) = Len(c) + Len(b)
    BY <2>4
  <2>3. Len(s) \in Nat /\ Len(r) \in Nat
    OBVIOUS
  <2> QED
    BY <2>1, <2>2, <2>3
<1>8. \A j \in 1..(i - 1) : (c \o b)[j] = s[j]
  BY <1>2, <1>4, <1>5 DEF c
<1>9. \A j \in 1..Len(r) : (c \o b)[i - 1 + j] = r[j]
  <2>1. c \in Seq(S) /\ Len(c) = i - 1 + Len(r) /\ \A j \in 1..Len(r) : c[i - 1 + j] = r[j]
    BY <1>4, <1>6 DEF c
  <2>2. ASSUME NEW j \in 1..Len(r) PROVE (c \o b)[i - 1 + j] = r[j]
    <3>1. i - 1 + j \in 1..Len(c)
      BY <2>1
    <3>2. (c \o b)[i - 1 + j] = c[i - 1 + j]
      BY <3>1, <2>1, <1>2
    <3> QED
      BY <3>2, <2>1
  <2> QED
    BY <2>2
<1>10. ASSUME NEW j \in (i + Len(r))..(Len(s) - n + Len(r))
       PROVE  (c \o b)[j] = s[j - Len(r) + n]
  <2> DEFINE m == j - (i - 1 + Len(r))
  <2>1. m \in 1..Len(b)
    BY <1>2
  <2>2. c \in Seq(S) /\ Len(c) = i - 1 + Len(r) /\ j = Len(c) + m
    BY <1>4 DEF c
  <2>3. (c \o b)[j] = b[m]
    <3> HIDE DEF m
    <3>1. b \in Seq(S)
      BY <1>2
    <3> QED
      BY <2>1, <2>2, <3>1
  <2>4. b[m] = s[i + n + m - 1]
    BY <2>1, <1>2
  <2>5. i + n + m - 1 = j - Len(r) + n
    OBVIOUS
  <2> QED
    BY <2>3, <2>4, <2>5
<1>11. Splice(s, i, n, r) = c \o b
  BY <1>3 DEF c
<1> QED
  BY <1>7, <1>8, <1>9, <1>10, <1>11 DEF SplicedAs

LEMMA MovedIs ==
  ASSUME NEW S, NEW s, NEW r, NEW i, NEW n, NEW d, NEW t, Spliced(S, s, r, i, n, d, t)
  PROVE  t \in Seq(S) /\ Len(t) = Len(s) + d /\ Moved(s, t, r, i, Len(r), Len(s) + d, d)
<1>1. /\ s \in Seq(S) /\ r \in Seq(S) /\ n \in Nat /\ i \in 1..(Len(s) + 1) /\ i + n <= Len(s) + 1
      /\ d = Len(r) - n /\ t = Splice(s, i, n, r)
  BY DEF Spliced
<1>2. SplicedAs(S, s, r, i, n, t)
  BY <1>1, SpliceIs
<1>3. Len(s) \in Nat /\ Len(r) \in Nat /\ Len(s) - n + Len(r) = Len(s) + d
  BY <1>1
<1>4. ASSUME NEW j \in (i + Len(r))..(Len(s) + d) PROVE t[j] = s[j - d]
  <2>1. j - Len(r) + n = j - d /\ j \in (i + Len(r))..(Len(s) - n + Len(r))
    BY <1>1, <1>3
  <2> QED
    BY <1>2, <2>1 DEF SplicedAs
<1> QED
  BY <1>2, <1>3, <1>4 DEF SplicedAs, Moved

-----------------------------------------------------------------------------
(* The place of a key.                                                     *)

\* The keys up to a key are the first ones.
LEMMA FirstOnes ==
  ASSUME NEW n \in Nat, NEW T \in SUBSET (1..n), \A i, j \in 1..n : i < j /\ j \in T => i \in T
  PROVE  Cardinality(T) \in 0..n /\ \A i \in 1..n : i \in T <=> i <= Cardinality(T)
<1>1. CASE T = {}
  BY <1>1, FS_EmptySet
<1>2. CASE T # {}
  <2>1. T \in SUBSET (0..n)
    OBVIOUS
  <2>2. Max(T) \in T /\ \A y \in T : y <= Max(T)
    BY <2>1, <1>2, MaxOfNats
  <2> DEFINE m == Max(T)
  <2>3. m \in 1..n /\ m \in T
    BY <2>2
  <2>4. T = 1..m
    <3> HIDE DEF m
    <3>1. \A y \in T : y \in 1..n /\ y <= m
      BY <2>2 DEF m
    <3>2. \A y \in 1..m : y \in T
      BY <2>3
    <3>3. T \subseteq 1..m
      BY <2>3, <3>1
    <3>4. 1..m \subseteq T
      BY <3>2
    <3> QED
      BY <3>3, <3>4
  <2> HIDE DEF m
  <2>5. Cardinality(T) = m
    BY <2>3, <2>4, FS_Interval
  <2> QED
    BY <2>3, <2>4, <2>5
<1> QED
  BY <1>1, <1>2

LEMMA KeyRows ==
  ASSUME NEW keys \in Seq(Keys)
  PROVE  /\ DOMAIN keys = 1..Len(keys) /\ Len(keys) \in Nat
         /\ \A i \in 1..Len(keys) : keys[i] \in Nat /\ keys[i] \in Keys
<1>1. Keys \subseteq Nat
  BY MapAssumption DEF Keys
<1>2. DOMAIN keys = 1..Len(keys) /\ Len(keys) \in Nat
  OBVIOUS
<1>3. ASSUME NEW i \in 1..Len(keys) PROVE keys[i] \in Keys
  OBVIOUS
<1> QED
  BY <1>1, <1>2, <1>3

\* UpperBound is the place after the last key that is not greater.
LEMMA UpperIs ==
  ASSUME NEW keys \in Seq(Keys), Ascends(keys), NEW k \in Nat
  PROVE  /\ UpperBound(keys, k) \in 1..(Len(keys) + 1)
         /\ \A j \in 1..Len(keys) : IF j < UpperBound(keys, k) THEN keys[j] <= k ELSE k < keys[j]
<1> DEFINE T == {i \in DOMAIN keys : keys[i] <= k}
<1>1. DOMAIN keys = 1..Len(keys) /\ Len(keys) \in Nat /\ \A i \in 1..Len(keys) : keys[i] \in Nat
  BY KeyRows
<1>2. \A i, j \in 1..Len(keys) : i < j /\ j \in T => i \in T
  BY <1>1 DEF Ascends
<1>3. T \in SUBSET (1..Len(keys))
  BY <1>1
<1>4. /\ Cardinality(T) \in 0..Len(keys)
      /\ \A i \in 1..Len(keys) : i \in T <=> i <= Cardinality(T)
  <2> HIDE DEF T
  <2> QED
    BY <1>1, <1>2, <1>3, FirstOnes
<1>5. UpperBound(keys, k) = 1 + Cardinality(T)
  BY DEF UpperBound
<1>6. \A i \in 1..Len(keys) : i \in T <=> keys[i] <= k
  BY <1>1
<1> HIDE DEF T
<1> QED
  BY <1>1, <1>4, <1>5, <1>6

\* LowerBound is the place of the first key that is not less.
LEMMA LowerIs ==
  ASSUME NEW keys \in Seq(Keys), Ascends(keys), NEW k \in Nat
  PROVE  /\ LowerBound(keys, k) \in 1..(Len(keys) + 1)
         /\ \A j \in 1..Len(keys) : IF j < LowerBound(keys, k) THEN keys[j] < k ELSE k <= keys[j]
<1> DEFINE T == {i \in DOMAIN keys : keys[i] < k}
<1>1. DOMAIN keys = 1..Len(keys) /\ Len(keys) \in Nat /\ \A i \in 1..Len(keys) : keys[i] \in Nat
  BY KeyRows
<1>2. \A i, j \in 1..Len(keys) : i < j /\ j \in T => i \in T
  BY <1>1 DEF Ascends
<1>3. T \in SUBSET (1..Len(keys))
  BY <1>1
<1>4. /\ Cardinality(T) \in 0..Len(keys)
      /\ \A i \in 1..Len(keys) : i \in T <=> i <= Cardinality(T)
  <2> HIDE DEF T
  <2> QED
    BY <1>1, <1>2, <1>3, FirstOnes
<1>5. LowerBound(keys, k) = 1 + Cardinality(T)
  BY DEF LowerBound
<1>6. \A i \in 1..Len(keys) : i \in T <=> keys[i] < k
  BY <1>1
<1> HIDE DEF T
<1> QED
  BY <1>1, <1>4, <1>5, <1>6

-----------------------------------------------------------------------------
(* Short sequences.                                                        *)

LEMMA ConcatIs ==
  ASSUME NEW S, NEW a \in Seq(S), NEW b \in Seq(S)
  PROVE  /\ a \o b \in Seq(S) /\ Len(a \o b) = Len(a) + Len(b) /\ Len(a) \in Nat /\ Len(b) \in Nat
         /\ \A i \in 1..Len(a) : (a \o b)[i] = a[i]
         /\ \A i \in 1..Len(b) : (a \o b)[Len(a) + i] = b[i]
  OBVIOUS

LEMMA OneIs ==
  ASSUME NEW S, NEW x \in S
  PROVE  <<x>> \in Seq(S) /\ Len(<<x>>) = 1 /\ <<x>>[1] = x
  OBVIOUS

LEMMA TwoIs ==
  ASSUME NEW S, NEW x \in S, NEW y \in S
  PROVE  <<x, y>> \in Seq(S) /\ Len(<<x, y>>) = 2 /\ <<x, y>>[1] = x /\ <<x, y>>[2] = y
  OBVIOUS

LEMMA AppendIs ==
  ASSUME NEW S, NEW a \in Seq(S), NEW x \in S
  PROVE  /\ Append(a, x) \in Seq(S) /\ Append(a, x) = a \o <<x>> /\ Len(Append(a, x)) = Len(a) + 1
         /\ \A i \in 1..Len(a) : Append(a, x)[i] = a[i]
         /\ Append(a, x)[Len(a) + 1] = x
  OBVIOUS

-----------------------------------------------------------------------------
(* Records.                                                                *)

LEMMA RecordKinds ==
  /\ \A n \in LeafRecords : n.kind = "leaf" /\ n.keys \in Seq(Keys) /\ n.vals \in Seq(Refs)
                            /\ n = Leaf(n.keys, n.vals) /\ n \in Records
  /\ \A n \in NodeRecords : n.kind = "node" /\ n.keys \in Seq(Keys) /\ n.kids \in Seq(Nat)
                            /\ n = Node(n.keys, n.kids) /\ n \in Records
  /\ \A n \in ValueRecords : n.kind = "value" /\ n.val \in Value /\ n \in Records
  /\ \A n \in MetaRecords : n.kind = "meta" /\ n.root \in Nat /\ n.size \in Nat
                            /\ n.applied \in 0..MaxApplied /\ n \in Records
  /\ \A n \in Records : /\ n.kind \in {"leaf", "node", "value", "meta"}
                        /\ n.kind = "leaf" => n \in LeafRecords
                        /\ n.kind = "node" => n \in NodeRecords
                        /\ n.kind = "value" => n \in ValueRecords
                        /\ n.kind = "meta" => n \in MetaRecords
  BY DEF LeafRecords, NodeRecords, ValueRecords, MetaRecords, Records, Leaf, Node

LEMMA RecordShape ==
  ASSUME NEW f, NEW w, NEW n, RecordOK(f, w, n)
  PROVE  Len(n.keys) \in Nat /\ n.kind \in {"leaf", "node"} /\ n.keys \in Seq(Keys) /\ n \in Records
BY RecordKinds DEF RecordOK, LeafOK, NodeOK

LEMMA NodesIs ==
  ASSUME NEW f \in Seq(Records)
  PROVE  /\ \A p \in Nodes(f) : p \in 1..Len(f) /\ p \in Nat /\ f[p] \in Records /\ f[p].kind \in {"leaf", "node"}
                                /\ (f[p].kind = "leaf" => f[p] \in LeafRecords)
                                /\ (f[p].kind = "node" => f[p] \in NodeRecords)
         /\ \A p \in 1..Len(f) : f[p].kind \in {"leaf", "node"} => p \in Nodes(f)
<1>1. ASSUME NEW p \in 1..Len(f) PROVE f[p] \in Records
  OBVIOUS
<1>2. DOMAIN f = 1..Len(f) /\ Len(f) \in Nat
  OBVIOUS
<1> QED
  BY <1>1, <1>2, RecordKinds DEF Nodes

\* What a leaf entry refers to is a value.
LEMMA ResolveIs ==
  ASSUME NEW f \in Seq(Records), NEW n, LeafOK(f, n), NEW i \in 1..Len(n.keys)
  PROVE  ResolveValue(f, n.vals[i]) \in Value /\ n.keys[i] \in Keys
<1>1. n.keys \in Seq(Keys) /\ n.vals \in Seq(Refs) /\ Len(n.vals) = Len(n.keys)
  BY RecordKinds DEF LeafOK
<1>2. n.vals[i] \in Refs /\ n.keys[i] \in Keys
  BY <1>1
<1>3. CASE n.vals[i][1] = "at"
  <2>1. f[n.vals[i][2]] \in ValueRecords
    BY <1>1, <1>3 DEF LeafOK
  <2> QED
    BY <1>2, <1>3, <2>1, RecordKinds DEF ResolveValue
<1>4. CASE n.vals[i][1] # "at"
  BY <1>2, <1>4 DEF ResolveValue, Refs
<1> QED
  BY <1>3, <1>4

\* Two nodes short of MinKeys fit one; one that does not fit has enough for two.
LEMMA MinKeysIs == MinKeys \in Nat /\ MinKeys >= 1 /\ 2 * MinKeys <= Order - 1 /\ Order - 2 <= 2 * MinKeys
  BY OrderAssumption DEF MinKeys

\* A node that holds MinKeys keys has a key.
LEMMA SomeKey ==
  ASSUME NEW keys \in Seq(Keys), Len(keys) >= MinKeys
  PROVE  {keys[i] : i \in 1..Len(keys)} # {}
<1>1. PICK L \in Nat : L = Len(keys)
  OBVIOUS
<1>2. 1 \in 1..L
  BY <1>1, MinKeysIs
<1>3. keys[1] \in {keys[i] : i \in 1..Len(keys)}
  BY <1>1, <1>2
<1> QED
  BY <1>3

\* The summary of a node is one.
LEMMA SummaryFits ==
  ASSUME NEW f \in Seq(Records), NEW w, NEW n, RecordOK(f, w, n),
         \A p \in Nodes(f) : SummaryOK(w[p])
  PROVE  SummaryOK(Summary(f, w, n))
<1>1. CASE LeafOK(f, n)
  <2> DEFINE m == LeafSummary(f, n)
  <2>1. n.kind = "leaf" /\ Summary(f, w, n) = m
    BY <1>1, RecordKinds DEF LeafOK, Summary
  <2>2. n.keys \in Seq(Keys) /\ Ascends(n.keys)
    BY <1>1, RecordKinds DEF LeafOK
  <2>3. m.h = 0 /\ m.e = {<<n.keys[i], ResolveValue(f, n.vals[i])>> : i \in 1..Len(n.keys)}
        /\ m.ks = {n.keys[i] : i \in 1..Len(n.keys)}
    BY DEF LeafSummary
  <2>4. m \in Summaries
    <3>1. m.e \in SUBSET (Keys \X Value)
      BY <2>3, <1>1, ResolveIs
    <3>2. m.ks \in SUBSET Keys
      BY <2>2, <2>3
    <3>3. m = [h |-> m.h, e |-> m.e, ks |-> m.ks, solid |-> m.solid]
      BY DEF LeafSummary
    <3>4. m.solid \in BOOLEAN
      BY DEF LeafSummary
    <3> HIDE DEF m
    <3> QED
      BY <2>3, <3>1, <3>2, <3>3, <3>4 DEF Summaries
  <2>5. \A x \in m.e : x[1] \in m.ks
    BY <2>3
  <2>6. ASSUME NEW x \in m.e, NEW y \in m.e, x[1] = y[1] PROVE x = y
    <3>1. PICK i \in 1..Len(n.keys) : x = <<n.keys[i], ResolveValue(f, n.vals[i])>>
      BY <2>3
    <3>2. PICK j \in 1..Len(n.keys) : y = <<n.keys[j], ResolveValue(f, n.vals[j])>>
      BY <2>3
    <3>3. n.keys[i] = n.keys[j] /\ n.keys[i] \in Nat /\ n.keys[j] \in Nat
      BY <2>2, <2>6, <3>1, <3>2, KeyRows
    <3>4. i = j
      BY <2>2, <3>3 DEF Ascends
    <3> QED
      BY <3>1, <3>2, <3>4
  <2>7. m.solid => m.ks # {}
    BY <2>2, <2>3, SomeKey DEF LeafSummary
  <2> HIDE DEF m
  <2> QED
    BY <2>1, <2>4, <2>5, <2>6, <2>7 DEF SummaryOK
<1>2. CASE NodeOK(f, w, n)
  <2> DEFINE m == NodeSummary(w, n)
             c(i) == w[n.kids[i]]
             N == 1..Len(n.kids)
  <2>1. n.kind = "node" /\ Summary(f, w, n) = m
    BY <1>2, RecordKinds DEF NodeOK, Summary
  <2>2. n.keys \in Seq(Keys) /\ Ascends(n.keys) /\ n.kids \in Seq(Nat) /\ Len(n.kids) = Len(n.keys) + 1
    BY <1>2, RecordKinds DEF NodeOK
  <2>3. m.h = c(1).h + 1 /\ m.e = UNION {c(i).e : i \in N}
        /\ m.ks = {n.keys[i] : i \in 1..Len(n.keys)} \cup UNION {c(i).ks : i \in N}
    BY DEF NodeSummary
  <2>4. \A i \in N : SummaryOK(c(i))
    BY <1>2 DEF NodeOK
  <2>5. \A i \in N : /\ c(i).h \in Nat /\ c(i).e \in SUBSET (Keys \X Value) /\ c(i).ks \in SUBSET Keys
                     /\ \A x \in c(i).e : x[1] \in c(i).ks
                     /\ \A x, y \in c(i).e : x[1] = y[1] => x = y
    BY <2>4 DEF SummaryOK, Summaries
  <2>6. \A i \in N, j \in 1..Len(n.keys) : \A k \in c(i).ks :
          IF j < i THEN n.keys[j] <= k ELSE k < n.keys[j]
    BY <1>2 DEF NodeOK
  <2> HIDE DEF c
  <2>7. m \in Summaries
    <3>1. m.e \in SUBSET (Keys \X Value) /\ m.ks \in SUBSET Keys
      BY <2>2, <2>3, <2>5
    <3>2. m.h \in Nat
      BY <2>2, <2>3, <2>5
    <3>3. m = [h |-> m.h, e |-> m.e, ks |-> m.ks, solid |-> m.solid]
      BY DEF NodeSummary
    <3>4. m.solid \in BOOLEAN
      BY DEF NodeSummary
    <3> HIDE DEF m
    <3> QED
      BY <3>1, <3>2, <3>3, <3>4 DEF Summaries
  <2>8. \A x \in m.e : x[1] \in m.ks
    BY <2>3, <2>5
  <2>9. ASSUME NEW x \in m.e, NEW y \in m.e, x[1] = y[1] PROVE x = y
    <3>1. PICK i \in N : x \in c(i).e
      BY <2>3
    <3>2. PICK j \in N : y \in c(j).e
      BY <2>3
    <3>3. x[1] \in c(i).ks /\ x[1] \in c(j).ks /\ x[1] \in Nat
      <4>1. x[1] \in Keys
        BY <3>1, <2>5
      <4> QED
        BY <4>1, <3>1, <3>2, <2>5, <2>9, MapAssumption DEF Keys
    <3>4. ASSUME NEW a \in N, NEW b \in N, a < b, x[1] \in c(a).ks, x[1] \in c(b).ks PROVE FALSE
      <4>1. a \in 1..Len(n.keys) /\ a < b /\ ~ (a < a)
        BY <2>2, <3>4
      <4>2. n.keys[a] \in Nat
        BY <2>2, <4>1, KeyRows
      <4>3. n.keys[a] <= x[1] /\ x[1] < n.keys[a]
        BY <4>1, <2>6, <3>4
      <4> QED
        BY <4>2, <4>3, <3>3
    <3>5. i = j
      <4>1. ~ (i < j) /\ ~ (j < i)
        BY <3>3, <3>4
      <4> QED
        BY <4>1, <2>2
    <3> QED
      BY <3>1, <3>2, <3>5, <2>5, <2>9
  <2>10. m.solid => m.ks # {}
    <3>1. m.solid => Len(n.keys) >= MinKeys
      BY DEF NodeSummary
    <3> HIDE DEF m
    <3> QED
      BY <2>2, <2>3, <3>1, SomeKey
  <2> HIDE DEF m
  <2> QED
    BY <2>1, <2>7, <2>8, <2>9, <2>10 DEF SummaryOK
<1> QED
  BY <1>1, <1>2 DEF RecordOK

-----------------------------------------------------------------------------
(* A file grows.                                                           *)

\* g is f with more at its end, and u has the summaries w for what is in f.
Extends(f, g) == Len(f) <= Len(g) /\ \A p \in 1..Len(f) : g[p] = f[p]

Agrees(f, w, u) == \A p \in Nodes(f) : u[p] = w[p]

LEMMA ExtendsOn ==
  ASSUME NEW f \in Seq(Records), NEW g \in Seq(Records), NEW h \in Seq(Records),
         Extends(f, g), Extends(g, h), NEW w, NEW u, NEW v, Agrees(f, w, u), Agrees(g, u, v)
  PROVE  Extends(f, h) /\ Agrees(f, w, v) /\ Nodes(f) \subseteq Nodes(g)
<1>1. Len(f) \in Nat /\ Len(g) \in Nat /\ Len(h) \in Nat
  OBVIOUS
<1>2. Extends(f, h)
  BY <1>1 DEF Extends
<1>3. Nodes(f) \subseteq Nodes(g)
  BY <1>1, NodesIs DEF Extends
<1> QED
  BY <1>2, <1>3 DEF Agrees

LEMMA NodesGrow ==
  ASSUME NEW f \in Seq(Records), NEW g \in Seq(Records), Extends(f, g)
  PROVE  Nodes(f) \subseteq Nodes(g) /\ \A p \in Nodes(f) : g[p] = f[p]
<1>1. Len(f) \in Nat /\ Len(g) \in Nat
  OBVIOUS
<1> QED
  BY <1>1, NodesIs DEF Extends

\* A node that fits a file fits it when it has grown.
LEMMA RecordGrows ==
  ASSUME NEW f \in Seq(Records), NEW g \in Seq(Records), Extends(f, g),
         NEW w, NEW u, Agrees(f, w, u), NEW n, RecordOK(f, w, n)
  PROVE  /\ RecordOK(g, u, n) /\ Summary(g, u, n) = Summary(f, w, n)
         /\ KidsFilled(f, n) => KidsFilled(g, n)
         /\ Dense(f, n) => Dense(g, n)
         /\ n \in Records /\ Before(n, Len(f) + 1)
<1>1. CASE LeafOK(f, n)
  <2>1. n.kind = "leaf" /\ n \in Records /\ n.vals \in Seq(Refs) /\ Len(n.vals) = Len(n.keys)
    BY <1>1, RecordKinds DEF LeafOK
  <2>2. ASSUME NEW i \in 1..Len(n.vals), n.vals[i][1] = "at"
        PROVE  n.vals[i][2] \in 1..Len(f) /\ n.vals[i][2] \in 1..Len(g) /\ g[n.vals[i][2]] = f[n.vals[i][2]]
    <3>1. n.vals[i][2] \in 1..Len(f)
      BY <1>1, <2>2 DEF LeafOK
    <3>2. Len(f) \in Nat /\ Len(g) \in Nat
      OBVIOUS
    <3> QED
      BY <3>1, <3>2 DEF Extends
  <2>3. LeafOK(g, n)
    BY <1>1, <2>2 DEF LeafOK
  <2>4. LeafSummary(g, n) = LeafSummary(f, n)
    <3>1. ASSUME NEW i \in 1..Len(n.keys) PROVE ResolveValue(g, n.vals[i]) = ResolveValue(f, n.vals[i])
      BY <2>1, <2>2 DEF ResolveValue
    <3> QED
      BY <3>1 DEF LeafSummary
  <2>5. Before(n, Len(f) + 1)
    <3>1. Len(f) \in Nat
      OBVIOUS
    <3> QED
      BY <2>1, <2>2, <3>1 DEF Before
  <2> QED
    BY <2>1, <2>3, <2>4, <2>5 DEF RecordOK, Summary, Dense, KidsFilled
<1>2. CASE NodeOK(f, w, n)
  <2>1. n.kind = "node" /\ n \in Records /\ n.kids \in Seq(Nat) /\ n.keys \in Seq(Keys)
        /\ Len(n.kids) = Len(n.keys) + 1
    BY <1>2, RecordKinds DEF NodeOK
  <2>2. ASSUME NEW i \in 1..Len(n.kids)
        PROVE  /\ n.kids[i] \in Nodes(f) /\ n.kids[i] \in Nodes(g) /\ g[n.kids[i]] = f[n.kids[i]]
               /\ u[n.kids[i]] = w[n.kids[i]] /\ n.kids[i] < Len(f) + 1
    <3>1. n.kids[i] \in Nodes(f)
      BY <1>2 DEF NodeOK
    <3>2. Len(f) \in Nat
      OBVIOUS
    <3> QED
      BY <3>1, <3>2, NodesIs, NodesGrow DEF Agrees
  <2>3. u[n.kids[1]] = w[n.kids[1]]
    <3>1. 1 \in 1..Len(n.kids)
      BY <2>1
    <3> QED
      BY <3>1, <2>2
  <2>8. \A j \in 1..Len(n.keys) : u[n.kids[j]].solid
    <3>1. \A j \in 1..Len(n.keys) : j \in 1..Len(n.kids)
      BY <2>1
    <3> QED
      BY <3>1, <1>2, <2>2 DEF NodeOK
  <2>4. NodeOK(g, u, n)
    BY <1>2, <2>2, <2>3, <2>8 DEF NodeOK
  <2>5. NodeSummary(u, n) = NodeSummary(w, n)
    <3>1. {u[n.kids[i]].e : i \in 1..Len(n.kids)} = {w[n.kids[i]].e : i \in 1..Len(n.kids)}
      BY <2>2
    <3>2. {u[n.kids[i]].ks : i \in 1..Len(n.kids)} = {w[n.kids[i]].ks : i \in 1..Len(n.kids)}
      BY <2>2
    <3>3. u[n.kids[Len(n.kids)]] = w[n.kids[Len(n.kids)]]
      <4>1. Len(n.kids) \in 1..Len(n.kids)
        BY <2>1
      <4> QED
        BY <4>1, <2>2
    <3>4. UNION {u[n.kids[i]].e : i \in 1..Len(n.kids)} = UNION {w[n.kids[i]].e : i \in 1..Len(n.kids)}
      BY <3>1
    <3>5. UNION {u[n.kids[i]].ks : i \in 1..Len(n.kids)} = UNION {w[n.kids[i]].ks : i \in 1..Len(n.kids)}
      BY <3>2
    <3>6. u[n.kids[1]].h = w[n.kids[1]].h /\ u[n.kids[Len(n.kids)]].solid = w[n.kids[Len(n.kids)]].solid
      BY <2>3, <3>3
    <3> QED
      BY <2>3, <3>4, <3>5, <3>6 DEF NodeSummary
  <2>6. KidsFilled(f, n) => KidsFilled(g, n)
    BY <2>2 DEF KidsFilled
  <2>7. Before(n, Len(f) + 1)
    BY <2>1, <2>2 DEF Before
  <2> QED
    BY <2>1, <2>4, <2>5, <2>6, <2>7 DEF RecordOK, Summary, Dense
<1> QED
  BY <1>1, <1>2 DEF RecordOK

\* The summaries of f and of what is appended to it.
Grown(f, w, ns) ==
  [p \in Nodes(f \o ns) |-> IF p \in Nodes(f) THEN w[p] ELSE Summary(f, w, (f \o ns)[p])]

\* Nodes that fit a file may be appended to it, and keep all its trees.
LEMMA SaveAll ==
  ASSUME NEW f, NEW w, NEW loaded \in BOOLEAN, TreesOK(f, w, loaded), NEW ns \in Seq(Records),
         \A i \in 1..Len(ns) : ns[i].kind \in {"leaf", "node"} => Fits(f, w, loaded, ns[i])
  PROVE  /\ TreesOK(f \o ns, Grown(f, w, ns), loaded)
         /\ Extends(f, f \o ns) /\ Agrees(f, w, Grown(f, w, ns))
         /\ Len(f \o ns) = Len(f) + Len(ns)
         /\ \A i \in 1..Len(ns) :
              /\ Len(f) + i \in 1..Len(f \o ns) /\ (f \o ns)[Len(f) + i] = ns[i]
              /\ ns[i].kind \in {"leaf", "node"} =>
                   /\ Len(f) + i \in Nodes(f \o ns)
                   /\ Grown(f, w, ns)[Len(f) + i] = Summary(f, w, ns[i])
<1> DEFINE g == f \o ns
           u == Grown(f, w, ns)
<1>1. f \in Seq(Records) /\ \A p \in Nodes(f) : SummaryOK(w[p])
  BY DEF TreesOK
<1>2. /\ g \in Seq(Records) /\ Len(g) = Len(f) + Len(ns) /\ Len(f) \in Nat /\ Len(ns) \in Nat
      /\ \A i \in 1..Len(f) : g[i] = f[i]
      /\ \A i \in 1..Len(ns) : g[Len(f) + i] = ns[i]
  BY <1>1, ConcatIs
<1>3. u = [p \in Nodes(g) |-> IF p \in Nodes(f) THEN w[p] ELSE Summary(f, w, g[p])]
  BY DEF Grown
<1> HIDE DEF g, u
<1>4. Extends(f, g)
  BY <1>2 DEF Extends
<1>5. Nodes(f) \subseteq Nodes(g) /\ \A p \in Nodes(f) : g[p] = f[p]
  BY <1>1, <1>2, <1>4, NodesGrow
<1>6. Agrees(f, w, u)
  BY <1>3, <1>5 DEF Agrees
<1>7. ASSUME NEW i \in 1..Len(ns)
      PROVE  /\ Len(f) + i \in 1..Len(g) /\ g[Len(f) + i] = ns[i] /\ Len(f) + i \notin Nodes(f)
             /\ ns[i].kind \in {"leaf", "node"} =>
                  /\ Len(f) + i \in Nodes(g)
                  /\ u[Len(f) + i] = Summary(f, w, ns[i])
  <2>1. Len(f) + i \in 1..Len(g) /\ g[Len(f) + i] = ns[i]
    BY <1>2
  <2>2. Len(f) + i \notin Nodes(f)
    <3>1. ~ (Len(f) + i <= Len(f))
      BY <1>2
    <3> QED
      BY <3>1, <1>1, NodesIs
  <2>3. ASSUME ns[i].kind \in {"leaf", "node"}
        PROVE  Len(f) + i \in Nodes(g) /\ u[Len(f) + i] = Summary(f, w, ns[i])
    <3>1. Len(f) + i \in Nodes(g)
      BY <2>1, <2>3, <1>2, NodesIs
    <3> QED
      BY <3>1, <2>1, <2>2, <1>3
  <2> QED
    BY <2>1, <2>2, <2>3
<1>8. ASSUME NEW p \in Nodes(g)
      PROVE  /\ SummaryOK(u[p]) /\ u[p] = Summary(g, u, g[p])
             /\ Fits(g, u, loaded, g[p]) /\ Before(g[p], p)
  <2>1. CASE p \in Nodes(f)
    <3>1. /\ SummaryOK(w[p]) /\ w[p] = Summary(f, w, f[p])
          /\ Fits(f, w, loaded, f[p]) /\ Before(f[p], p)
      BY <2>1 DEF TreesOK
    <3>2. u[p] = w[p] /\ g[p] = f[p] /\ RecordOK(f, w, f[p])
      BY <2>1, <3>1, <1>5, <1>6 DEF Agrees, Fits
    <3>3. /\ RecordOK(g, u, f[p]) /\ Summary(g, u, f[p]) = Summary(f, w, f[p])
          /\ (Dense(f, f[p]) => Dense(g, f[p]))
      BY <3>2, <1>1, <1>2, <1>4, <1>6, RecordGrows
    <3> QED
      BY <3>1, <3>2, <3>3 DEF Fits
  <2>2. CASE p \notin Nodes(f)
    <3>1. p \in 1..Len(g) /\ g[p].kind \in {"leaf", "node"}
      BY <1>2, NodesIs
    <3>2. ~ (p <= Len(f))
      <4>1. ASSUME p <= Len(f) PROVE FALSE
        <5>1. p \in 1..Len(f) /\ g[p] = f[p]
          BY <4>1, <3>1, <1>2
        <5> QED
          BY <5>1, <3>1, <2>2, <1>1, NodesIs
      <4> QED
        BY <4>1
    <3> DEFINE i == p - Len(f)
    <3>3. i \in 1..Len(ns) /\ Len(f) + i = p
      BY <3>1, <3>2, <1>2
    <3> HIDE DEF i
    <3>4. g[p] = ns[i] /\ Fits(f, w, loaded, ns[i]) /\ u[p] = Summary(f, w, ns[i])
      BY <3>1, <3>3, <1>7
    <3>5. RecordOK(f, w, ns[i])
      BY <3>4 DEF Fits
    <3>6. /\ RecordOK(g, u, ns[i]) /\ Summary(g, u, ns[i]) = Summary(f, w, ns[i])
          /\ (Dense(f, ns[i]) => Dense(g, ns[i])) /\ Before(ns[i], Len(f) + 1)
      BY <3>5, <1>1, <1>2, <1>4, <1>6, RecordGrows
    <3>7. SummaryOK(Summary(f, w, ns[i]))
      BY <3>5, <1>1, SummaryFits
    <3>8. Before(ns[i], p)
      <4>1. Len(f) + 1 <= p /\ p \in Nat /\ Len(f) \in Nat
        BY <3>3, <1>2
      <4>2. CASE ns[i].kind = "leaf"
        <5>1. LeafOK(f, ns[i])
          BY <4>2, <3>5, RecordKinds DEF RecordOK, NodeOK
        <5>2. ASSUME NEW j \in 1..Len(ns[i].vals), ns[i].vals[j][1] = "at" PROVE ns[i].vals[j][2] < p
          <6>1. ns[i].vals[j][2] \in 1..Len(f)
            BY <5>1, <5>2 DEF LeafOK
          <6> QED
            BY <6>1, <4>1
        <5> QED
          BY <4>2, <5>2 DEF Before
      <4>3. CASE ns[i].kind # "leaf"
        <5>1. NodeOK(f, w, ns[i])
          BY <4>3, <3>5, RecordKinds DEF RecordOK, LeafOK
        <5>2. ASSUME NEW j \in 1..Len(ns[i].kids) PROVE ns[i].kids[j] < p
          <6>1. ns[i].kids[j] \in 1..Len(f)
            BY <5>1, <1>1, NodesIs DEF NodeOK
          <6> QED
            BY <6>1, <4>1
        <5> QED
          BY <4>3, <5>2 DEF Before
      <4> QED
        BY <4>2, <4>3
    <3> QED
      BY <3>4, <3>6, <3>7, <3>8 DEF Fits
  <2> QED
    BY <2>1, <2>2
<1>9. TreesOK(g, u, loaded)
  BY <1>2, <1>8 DEF TreesOK
<1> QED
  BY <1>2, <1>4, <1>6, <1>7, <1>9 DEF g, u

LEMMA SubSeqIs ==
  ASSUME NEW S, NEW s \in Seq(S), NEW a \in 1..(Len(s) + 1), NEW b \in 0..Len(s), a <= b + 1
  PROVE  /\ SubSeq(s, a, b) \in Seq(S) /\ Len(SubSeq(s, a, b)) = b - a + 1
         /\ \A i \in 1..(b - a + 1) : SubSeq(s, a, b)[i] = s[a + i - 1]
  OBVIOUS

\* A file that is cut.
LEMMA CutTrees ==
  ASSUME NEW f, NEW w, NEW loaded \in BOOLEAN, TreesOK(f, w, loaded), NEW n \in 0..Len(f)
  PROVE  /\ TreesOK(SubSeq(f, 1, n), w, loaded) /\ Len(SubSeq(f, 1, n)) = n
         /\ Extends(SubSeq(f, 1, n), f)
<1> DEFINE g == SubSeq(f, 1, n)
<1>1. f \in Seq(Records) /\ Len(f) \in Nat /\ n \in Nat /\ n <= Len(f)
  BY DEF TreesOK
<1>2. g \in Seq(Records) /\ Len(g) = n /\ \A p \in 1..n : g[p] = f[p]
  BY <1>1, SubSeqIs
<1> HIDE DEF g
<1>3. Extends(g, f)
  BY <1>1, <1>2 DEF Extends
<1>4. \A p \in Nodes(g) : p \in Nodes(f) /\ p \in 1..n /\ g[p] = f[p]
  BY <1>1, <1>2, <1>3, NodesIs, NodesGrow
<1>5. \A p \in Nodes(f) : p <= n => p \in Nodes(g)
  BY <1>1, <1>2, NodesIs
<1>6. ASSUME NEW p \in Nodes(g)
      PROVE  /\ SummaryOK(w[p]) /\ w[p] = Summary(g, w, g[p])
             /\ Fits(g, w, loaded, g[p]) /\ Before(g[p], p)
  <2>1. /\ SummaryOK(w[p]) /\ w[p] = Summary(f, w, f[p])
        /\ Fits(f, w, loaded, f[p]) /\ Before(f[p], p) /\ p \in 1..n /\ g[p] = f[p]
    BY <1>4 DEF TreesOK
  <2>2. RecordOK(g, w, f[p]) /\ (Dense(f, f[p]) => Dense(g, f[p]))
    <3>1. CASE LeafOK(f, f[p])
      <4>1. f[p].kind = "leaf" /\ f[p].vals \in Seq(Refs)
        BY <3>1, RecordKinds DEF LeafOK
      <4>2. ASSUME NEW i \in 1..Len(f[p].vals), f[p].vals[i][1] = "at"
            PROVE  f[p].vals[i][2] \in 1..Len(g) /\ g[f[p].vals[i][2]] \in ValueRecords
        <5>1. f[p].vals[i][2] \in 1..Len(f) /\ f[p].vals[i][2] < p /\ f[f[p].vals[i][2]] \in ValueRecords
          BY <2>1, <3>1, <4>1, <4>2 DEF LeafOK, Before
        <5> QED
          BY <5>1, <2>1, <1>1, <1>2
      <4> QED
        BY <3>1, <4>1, <4>2 DEF RecordOK, LeafOK, Dense, KidsFilled
    <3>2. CASE NodeOK(f, w, f[p])
      <4>1. f[p].kind = "node" /\ f[p].kids \in Seq(Nat)
        BY <3>2, RecordKinds DEF NodeOK
      <4>2. ASSUME NEW i \in 1..Len(f[p].kids)
            PROVE  f[p].kids[i] \in Nodes(g) /\ g[f[p].kids[i]] = f[f[p].kids[i]]
        <5>1. f[p].kids[i] \in Nodes(f) /\ f[p].kids[i] < p /\ f[p].kids[i] \in Nat
          BY <2>1, <3>2, <4>1 DEF NodeOK, Before
        <5>2. f[p].kids[i] <= n
          BY <5>1, <2>1, <1>1
        <5> QED
          BY <5>1, <5>2, <1>4, <1>5
      <4> QED
        BY <3>2, <4>1, <4>2 DEF RecordOK, NodeOK, Dense, KidsFilled
    <3> QED
      BY <2>1, <3>1, <3>2 DEF Fits, RecordOK
  <2>3. Summary(g, w, f[p]) = Summary(f, w, f[p])
    <3>1. Agrees(g, w, w)
      BY DEF Agrees
    <3> QED
      BY <2>2, <3>1, <1>1, <1>2, <1>3, RecordGrows
  <2> QED
    BY <2>1, <2>2, <2>3 DEF Fits
<1>7. TreesOK(g, w, loaded)
  BY <1>2, <1>6 DEF TreesOK
<1> QED
  BY <1>2, <1>3, <1>7 DEF g

-----------------------------------------------------------------------------
(* Splits.                                                                 *)

LEMMA HalfIs ==
  ASSUME NEW x \in Nat
  PROVE  (x + 1) \div 2 \in Nat /\ x <= 2 * ((x + 1) \div 2) /\ 2 * ((x + 1) \div 2) <= x + 1
  OBVIOUS

\* Both halves of a split leaf hold MinKeys keys and fit, and the first key of the
\* right one is between them.
LEMMA SplitLeafIs ==
  ASSUME NEW f \in Seq(Records), NEW w, NEW n, LeafOK(f, n), NEW loaded \in BOOLEAN,
         Len(n.keys) >= Order, Len(n.keys) <= 2 * Order - 2
  PROVE  Halves(f, w, loaded, Summary(f, w, n), SplitLeaf(n).halves, SplitLeaf(n).seps)
<1> DEFINE mid == (Len(n.keys) + 1) \div 2
           L == Len(n.keys)
           a == Leaf(SubSeq(n.keys, 1, mid), SubSeq(n.vals, 1, mid))
           b == Leaf(SubSeq(n.keys, mid + 1, L), SubSeq(n.vals, mid + 1, L))
           hs == <<a, b>>
           s == n.keys[mid + 1]
<1>1. /\ n.kind = "leaf" /\ n.keys \in Seq(Keys) /\ n.vals \in Seq(Refs) /\ Len(n.vals) = L /\ L \in Nat
      /\ Ascends(n.keys)
  BY RecordKinds DEF LeafOK
<1>2. /\ mid \in 1..L /\ mid + 1 \in 1..L /\ mid \in Nat /\ mid < Order /\ L - mid < Order
      /\ mid >= MinKeys /\ L - mid >= MinKeys /\ mid >= 1
  <2>1. mid \in Nat /\ L <= 2 * mid /\ 2 * mid <= L + 1
    <3>1. Len(n.keys) \in Nat
      BY <1>1
    <3> QED
      BY <3>1, HalfIs
  <2> HIDE DEF mid
  <2> QED
    BY <1>1, <2>1, MinKeysIs, OrderAssumption
<1>3. SplitLeaf(n).halves = hs /\ SplitLeaf(n).seps = <<s>>
  BY <1>1 DEF SplitLeaf
<1> HIDE DEF mid
<1>4. /\ SubSeq(n.keys, 1, mid) \in Seq(Keys) /\ Len(SubSeq(n.keys, 1, mid)) = mid
      /\ \A i \in 1..mid : SubSeq(n.keys, 1, mid)[i] = n.keys[i]
      /\ SubSeq(n.vals, 1, mid) \in Seq(Refs) /\ Len(SubSeq(n.vals, 1, mid)) = mid
      /\ \A i \in 1..mid : SubSeq(n.vals, 1, mid)[i] = n.vals[i]
  BY <1>1, <1>2
<1>5. /\ SubSeq(n.keys, mid + 1, L) \in Seq(Keys) /\ Len(SubSeq(n.keys, mid + 1, L)) = L - mid
      /\ \A i \in 1..(L - mid) : SubSeq(n.keys, mid + 1, L)[i] = n.keys[mid + i]
      /\ SubSeq(n.vals, mid + 1, L) \in Seq(Refs) /\ Len(SubSeq(n.vals, mid + 1, L)) = L - mid
      /\ \A i \in 1..(L - mid) : SubSeq(n.vals, mid + 1, L)[i] = n.vals[mid + i]
  BY <1>1, <1>2
<1>6. /\ a.kind = "leaf" /\ a.keys \in Seq(Keys) /\ Len(a.keys) = mid /\ a.vals \in Seq(Refs) /\ Len(a.vals) = mid
      /\ \A i \in 1..mid : a.keys[i] = n.keys[i] /\ a.vals[i] = n.vals[i]
      /\ a \in LeafRecords
  BY <1>4 DEF Leaf, LeafRecords
<1>7. /\ b.kind = "leaf" /\ b.keys \in Seq(Keys) /\ Len(b.keys) = L - mid /\ b.vals \in Seq(Refs)
      /\ Len(b.vals) = L - mid
      /\ \A i \in 1..(L - mid) : b.keys[i] = n.keys[mid + i] /\ b.vals[i] = n.vals[mid + i]
      /\ b \in LeafRecords
  BY <1>5 DEF Leaf, LeafRecords
<1> HIDE DEF a, b
<1>8. \A i \in 1..L : n.vals[i][1] = "at" => n.vals[i][2] \in 1..Len(f) /\ f[n.vals[i][2]] \in ValueRecords
  BY <1>1 DEF LeafOK
<1>9. \A i \in 1..mid : i \in 1..L
  BY <1>1, <1>2
<1>10. \A i \in 1..(L - mid) : mid + i \in 1..L
  BY <1>1, <1>2
<1>11. LeafOK(f, a)
  <2>1. Ascends(a.keys)
    BY <1>1, <1>6, <1>9 DEF Ascends
  <2> QED
    BY <2>1, <1>6, <1>8, <1>9 DEF LeafOK
<1>12. LeafOK(f, b)
  <2>1. Ascends(b.keys)
    <3>1. ASSUME NEW i \in 1..(L - mid), NEW j \in 1..(L - mid), i < j PROVE n.keys[mid + i] < n.keys[mid + j]
      <4>1. mid + i < mid + j
        BY <1>2, <3>1
      <4> QED
        BY <4>1, <1>1, <1>10 DEF Ascends
    <3> QED
      BY <3>1, <1>7 DEF Ascends
  <2> QED
    BY <2>1, <1>7, <1>8, <1>10 DEF LeafOK
<1>13. /\ Summary(f, w, n).h = 0
       /\ Summary(f, w, n).e = {<<n.keys[i], ResolveValue(f, n.vals[i])>> : i \in 1..L}
       /\ Summary(f, w, n).ks = {n.keys[i] : i \in 1..L}
  BY <1>1 DEF Summary, LeafSummary
<1>14. /\ Summary(f, w, a).h = 0
       /\ Summary(f, w, a).e = {<<n.keys[i], ResolveValue(f, n.vals[i])>> : i \in 1..mid}
       /\ Summary(f, w, a).ks = {n.keys[i] : i \in 1..mid}
  <2>1. Summary(f, w, a) = LeafSummary(f, a)
    BY <1>6 DEF Summary
  <2>2. /\ LeafSummary(f, a).h = 0
        /\ LeafSummary(f, a).e = {<<a.keys[i], ResolveValue(f, a.vals[i])>> : i \in 1..mid}
        /\ LeafSummary(f, a).ks = {a.keys[i] : i \in 1..mid}
    BY <1>6 DEF LeafSummary
  <2>3. {<<a.keys[i], ResolveValue(f, a.vals[i])>> : i \in 1..mid}
          = {<<n.keys[i], ResolveValue(f, n.vals[i])>> : i \in 1..mid}
    BY <1>6
  <2>4. {a.keys[i] : i \in 1..mid} = {n.keys[i] : i \in 1..mid}
    BY <1>6
  <2> QED
    BY <2>1, <2>2, <2>3, <2>4
<1>15. /\ Summary(f, w, b).h = 0
       /\ Summary(f, w, b).e = {<<n.keys[mid + i], ResolveValue(f, n.vals[mid + i])>> : i \in 1..(L - mid)}
       /\ Summary(f, w, b).ks = {n.keys[mid + i] : i \in 1..(L - mid)}
  <2>1. Summary(f, w, b) = LeafSummary(f, b)
    BY <1>7 DEF Summary
  <2>2. /\ LeafSummary(f, b).h = 0
        /\ LeafSummary(f, b).e = {<<b.keys[i], ResolveValue(f, b.vals[i])>> : i \in 1..(L - mid)}
        /\ LeafSummary(f, b).ks = {b.keys[i] : i \in 1..(L - mid)}
    BY <1>7 DEF LeafSummary
  <2>3. {<<b.keys[i], ResolveValue(f, b.vals[i])>> : i \in 1..(L - mid)}
          = {<<n.keys[mid + i], ResolveValue(f, n.vals[mid + i])>> : i \in 1..(L - mid)}
    BY <1>7
  <2>4. {b.keys[i] : i \in 1..(L - mid)} = {n.keys[mid + i] : i \in 1..(L - mid)}
    BY <1>7
  <2> QED
    BY <2>1, <2>2, <2>3, <2>4
<1>16. UNION {Summary(f, w, hs[i]).e : i \in 1..2} = Summary(f, w, n).e
  <2> DEFINE x(i) == <<n.keys[i], ResolveValue(f, n.vals[i])>>
  <2>1. Summary(f, w, n).e = {x(i) : i \in 1..L} /\ Summary(f, w, a).e = {x(i) : i \in 1..mid}
        /\ Summary(f, w, b).e = {x(mid + i) : i \in 1..(L - mid)}
    BY <1>13, <1>14, <1>15
  <2> HIDE DEF x
  <2>2. ASSUME NEW i \in 1..L PROVE x(i) \in Summary(f, w, a).e \cup Summary(f, w, b).e
    <3>1. CASE i <= mid
      <4>1. i \in 1..mid
        BY <3>1, <1>1, <1>2
      <4> QED
        BY <4>1, <2>1
    <3>2. CASE ~ (i <= mid)
      <4>1. i - mid \in 1..(L - mid) /\ mid + (i - mid) = i
        BY <3>2, <1>1, <1>2
      <4> QED
        BY <4>1, <2>1
    <3> QED
      BY <3>1, <3>2
  <2>3. Summary(f, w, a).e \cup Summary(f, w, b).e = Summary(f, w, n).e
    BY <2>1, <2>2, <1>9, <1>10
  <2>4. UNION {Summary(f, w, hs[i]).e : i \in 1..2} = Summary(f, w, a).e \cup Summary(f, w, b).e
    <3>1. hs[1] = a /\ hs[2] = b /\ 1..2 = {1, 2}
      OBVIOUS
    <3> HIDE DEF hs
    <3> QED
      BY <3>1
  <2> QED
    BY <2>3, <2>4
<1>17. s \in Summary(f, w, n).ks /\ s \in Nat
  BY <1>1, <1>2, <1>13, KeyRows
<1>18. Summary(f, w, a).ks \subseteq Summary(f, w, n).ks /\ Summary(f, w, b).ks \subseteq Summary(f, w, n).ks
  BY <1>9, <1>10, <1>13, <1>14, <1>15
<1>19. \A k \in Summary(f, w, a).ks : k < s
  BY <1>1, <1>2, <1>9, <1>14 DEF Ascends
<1>20. ASSUME NEW k \in Summary(f, w, b).ks PROVE s <= k
  <2>1. PICK i \in 1..(L - mid) : k = n.keys[mid + i]
    BY <1>15
  <2>2. CASE i = 1
    BY <2>1, <2>2, <1>17
  <2>3. CASE i # 1
    <3>1. mid + 1 < mid + i /\ mid + i \in 1..L
      BY <2>3, <1>2, <1>10
    <3>2. s < k /\ k \in Nat
      BY <2>1, <3>1, <1>1, <1>2, KeyRows DEF Ascends
    <3> QED
      BY <3>2, <1>17
  <2> QED
    BY <2>2, <2>3
<1>21. Summary(f, w, a).solid /\ Summary(f, w, b).solid
  <2>1. Summary(f, w, a).solid = (Len(a.keys) >= MinKeys)
    BY <1>6 DEF Summary, LeafSummary
  <2>2. Summary(f, w, b).solid = (Len(b.keys) >= MinKeys)
    BY <1>7 DEF Summary, LeafSummary
  <2> QED
    BY <2>1, <2>2, <1>2, <1>6, <1>7
<1>22. hs \in Seq(Records) /\ Len(hs) = 2 /\ <<s>> \in Seq(Summary(f, w, n).ks) /\ Len(<<s>>) = 1 /\ <<s>>[1] = s
       /\ hs[1] = a /\ hs[2] = b
  <2>1. a \in Records /\ b \in Records
    BY <1>6, <1>7, RecordKinds
  <2>2. hs \in Seq(Records) /\ Len(hs) = 2 /\ hs[1] = a /\ hs[2] = b
    BY <2>1
  <2>3. s \in Summary(f, w, n).ks
    BY <1>17
  <2> HIDE DEF s
  <2>4. <<s>> \in Seq(Summary(f, w, n).ks) /\ Len(<<s>>) = 1 /\ <<s>>[1] = s
    BY <2>3, OneIs, Zenon
  <2> QED
    BY <2>2, <2>4
<1>23. \A i \in 1..2 : i = 1 \/ i = 2
  OBVIOUS
<1> HIDE DEF hs, s, L
<1>24. ASSUME NEW i \in 1..2
       PROVE  /\ RecordOK(f, w, hs[i]) /\ Len(hs[i].keys) < Order /\ KidsFilled(f, hs[i])
              /\ Len(hs[i].keys) >= MinKeys
              /\ Summary(f, w, hs[i]).h = Summary(f, w, n).h
              /\ Summary(f, w, hs[i]).ks \subseteq Summary(f, w, n).ks
  BY <1>2, <1>6, <1>7, <1>11, <1>12, <1>13, <1>14, <1>15, <1>18, <1>22, <1>23 DEF RecordOK, KidsFilled
<1> QED
  BY <1>3, <1>16, <1>19, <1>20, <1>21, <1>22, <1>24 DEF Halves

LEMMA PartIndex ==
  ASSUME NEW L \in Nat, NEW lo \in 1..(L + 1), NEW hi \in lo..(L + 1)
  PROVE  /\ \A i \in 1..(hi - lo) : lo + i - 1 \in 1..L /\ lo + i - 1 \in lo..(hi - 1)
         /\ \A i \in 1..(hi - lo + 1) : lo + i - 1 \in 1..(L + 1) /\ lo + i - 1 \in lo..hi
         /\ \A i \in lo..(hi - 1) : i - lo + 1 \in 1..(hi - lo) /\ lo + (i - lo + 1) - 1 = i
         /\ \A i \in lo..hi : i - lo + 1 \in 1..(hi - lo + 1) /\ lo + (i - lo + 1) - 1 = i
         /\ 1 \in 1..(hi - lo + 1) /\ lo + 1 - 1 = lo /\ 1 \in 1..(L + 1) /\ lo \in 1..(L + 1)
         /\ \A i \in 1..(hi - lo + 1), j \in 1..(hi - lo) : j < i <=> lo + j - 1 < lo + i - 1
         /\ \A i, j \in 1..(hi - lo) : i < j => lo + i - 1 < lo + j - 1
  OBVIOUS

LEMMA MidIs ==
  ASSUME NEW L \in Nat, Order <= L, L <= 2 * Order - 2, NEW mid, mid = (L + 1) \div 2
  PROVE  /\ mid \in 1..L /\ mid + 1 \in 1..L /\ mid \in Nat /\ mid - 1 < Order /\ L - mid < Order
         /\ mid - 1 >= MinKeys /\ L - mid >= MinKeys /\ mid >= 2 /\ mid - 1 \in 0..L
         /\ mid \in 1..(L + 1) /\ mid + 1 \in 1..(L + 1) /\ 1 \in 1..(L + 1) /\ L + 1 \in (mid + 1)..(L + 1)
<1> DEFINE x == (Order + 1) \div 2
<1>1. mid \in Nat /\ L <= 2 * mid /\ 2 * mid <= L + 1
  BY HalfIs
<1>2. x \in Nat /\ 2 * x <= Order + 1 /\ Order <= 2 * x
  BY OrderAssumption, HalfIs
<1>3. MinKeys = x - 1
  BY DEF MinKeys
<1> HIDE DEF x
<1>4. x <= mid
  BY <1>1, <1>2, OrderAssumption
<1>5. Order \in Nat /\ Order >= 3
  BY OrderAssumption
<1>6. x >= 2
  BY <1>2, <1>5
<1>7. mid - 1 >= MinKeys /\ L - mid >= MinKeys
  <2>1. 2 * (L - mid) >= L - 1
    BY <1>1
  <2>2. 2 * (L - mid) >= 2 * x - 2
    BY <2>1, <1>1, <1>2, <1>5
  <2> QED
    BY <2>2, <1>1, <1>2, <1>3, <1>4, <1>5
<1> QED
  BY <1>1, <1>2, <1>4, <1>5, <1>6, <1>7

LEMMA MidRanges ==
  ASSUME NEW L \in Nat, NEW mid \in 2..L, mid < L
  PROVE  /\ 1..mid \subseteq 1..(L + 1) /\ (mid + 1)..(L + 1) \subseteq 1..(L + 1)
         /\ 1..(L + 1) \subseteq (1..mid) \cup ((mid + 1)..(L + 1))
         /\ 1..(mid - 1) \subseteq 1..L /\ (mid + 1)..L \subseteq 1..L
         /\ 1 \in 1..(mid - 1) /\ mid \in 1..L
         /\ \A i \in 1..mid : ~ (mid < i)
         /\ \A i \in (mid + 1)..(L + 1) : mid < i
         /\ \A i \in 1..(mid - 1) : i < mid
         /\ \A i \in (mid + 1)..L : mid < i
  OBVIOUS

\* The children lo..hi of a node make a node.
IsPart(f, w, n, lo, hi, a) ==
  /\ NodeOK(f, w, a) /\ a.kind = "node" /\ a \in Records /\ Len(a.keys) = hi - lo
  /\ KidsFilled(f, n) => KidsFilled(f, a)
  /\ Summary(f, w, a).h = Summary(f, w, n).h
  /\ Summary(f, w, a).e = UNION {w[n.kids[i]].e : i \in lo..hi}
  /\ Summary(f, w, a).ks = {n.keys[i] : i \in lo..(hi - 1)} \cup UNION {w[n.kids[i]].ks : i \in lo..hi}
  /\ w[n.kids[hi]].solid /\ hi - lo >= MinKeys => Summary(f, w, a).solid

\* Such a node fits when the children are those of a node that does.
LEMMA PartIs ==
  ASSUME NEW f \in Seq(Records), NEW w, NEW n, NodeOK(f, w, n),
         NEW lo \in 1..Len(n.kids), NEW hi \in lo..Len(n.kids), NEW a,
         a = Node(SubSeq(n.keys, lo, hi - 1), SubSeq(n.kids, lo, hi))
  PROVE  IsPart(f, w, n, lo, hi, a)
<1> DEFINE L == Len(n.keys)
           c(i) == w[n.kids[i]]
<1>1. /\ n.kind = "node" /\ n.keys \in Seq(Keys) /\ n.kids \in Seq(Nat) /\ Len(n.kids) = L + 1 /\ L \in Nat
      /\ Ascends(n.keys)
  BY RecordKinds DEF NodeOK
<1>2. /\ lo \in 1..(L + 1) /\ hi \in 0..(L + 1) /\ lo <= hi /\ hi - 1 \in 0..L /\ lo <= (hi - 1) + 1
      /\ lo \in Nat /\ hi \in Nat
  BY <1>1
<1>3. /\ SubSeq(n.keys, lo, hi - 1) \in Seq(Keys) /\ Len(SubSeq(n.keys, lo, hi - 1)) = (hi - 1) - lo + 1
      /\ \A i \in 1..((hi - 1) - lo + 1) : SubSeq(n.keys, lo, hi - 1)[i] = n.keys[lo + i - 1]
  BY <1>1, <1>2, SubSeqIs
<1>4. /\ SubSeq(n.kids, lo, hi) \in Seq(Nat) /\ Len(SubSeq(n.kids, lo, hi)) = hi - lo + 1
      /\ \A i \in 1..(hi - lo + 1) : SubSeq(n.kids, lo, hi)[i] = n.kids[lo + i - 1]
  <2>1. n.kids \in Seq(Nat) /\ lo \in 1..(Len(n.kids) + 1) /\ hi \in 0..Len(n.kids) /\ lo <= hi + 1
    BY <1>1, <1>2
  <2> QED
    BY <2>1, SubSeqIs
<1> DEFINE K == 1..(hi - lo)
           C == 1..(hi - lo + 1)
<1>5. /\ a.kind = "node" /\ a.keys \in Seq(Keys) /\ Len(a.keys) = hi - lo /\ a.kids \in Seq(Nat)
      /\ Len(a.kids) = Len(a.keys) + 1 /\ a \in NodeRecords
      /\ \A i \in K : a.keys[i] = n.keys[lo + i - 1]
      /\ \A i \in C : a.kids[i] = n.kids[lo + i - 1]
  <2>1. a.kind = "node" /\ a.keys = SubSeq(n.keys, lo, hi - 1) /\ a.kids = SubSeq(n.kids, lo, hi)
    BY DEF Node
  <2>2. (hi - 1) - lo + 1 = hi - lo
    BY <1>2
  <2>3. a \in NodeRecords
    BY <1>3, <1>4 DEF Node, NodeRecords
  <2> QED
    BY <2>1, <2>2, <2>3, <1>3, <1>4
<1>6. 1..Len(a.keys) = K /\ 1..Len(a.kids) = C
  BY <1>5
<1>7. /\ \A i \in K : lo + i - 1 \in 1..L /\ lo + i - 1 \in lo..(hi - 1)
      /\ \A i \in C : lo + i - 1 \in 1..(L + 1) /\ lo + i - 1 \in lo..hi
      /\ \A i \in lo..(hi - 1) : i - lo + 1 \in K /\ lo + (i - lo + 1) - 1 = i
      /\ \A i \in lo..hi : i - lo + 1 \in C /\ lo + (i - lo + 1) - 1 = i
      /\ 1 \in C /\ lo + 1 - 1 = lo /\ 1 \in 1..(L + 1) /\ lo \in 1..(L + 1)
      /\ \A i \in C, j \in K : j < i <=> lo + j - 1 < lo + i - 1
      /\ \A i, j \in K : i < j => lo + i - 1 < lo + j - 1
  <2>1. L \in Nat /\ lo \in 1..(L + 1) /\ hi \in lo..(L + 1)
    BY <1>1, <1>2
  <2> HIDE DEF L
  <2> QED
    BY <2>1, PartIndex
<1>8. /\ \A i \in 1..(L + 1) : n.kids[i] \in Nodes(f) /\ c(i).h = c(1).h
      /\ \A i \in 1..(L + 1), j \in 1..L : \A k \in c(i).ks :
           IF j < i THEN n.keys[j] <= k ELSE k < n.keys[j]
      /\ \A j \in 1..L : c(j).solid
  BY <1>1 DEF NodeOK
<1>9. /\ \A i \in C : w[a.kids[i]] = c(lo + i - 1)
      /\ \A i \in K : w[a.kids[i]] = c(lo + i - 1)
  <2>1. \A i \in K : i \in C
    BY <1>2
  <2> QED
    BY <2>1, <1>5
<1>10. NodeOK(f, w, a)
  <2>1. Ascends(a.keys)
    <3>1. ASSUME NEW i \in K, NEW j \in K, i < j PROVE n.keys[lo + i - 1] < n.keys[lo + j - 1]
      BY <3>1, <1>1, <1>7 DEF Ascends
    <3> HIDE DEF K
    <3> QED
      BY <3>1, <1>5, <1>6 DEF Ascends
  <2> HIDE DEF K, C, c
  <2>4. \A i \in C : c(lo + i - 1).h = c(1).h /\ n.kids[lo + i - 1] \in Nodes(f)
    BY <1>7, <1>8
  <2>2. \A i \in C : a.kids[i] \in Nodes(f) /\ w[a.kids[i]].h = w[a.kids[1]].h
    BY <2>4, <1>5, <1>7, <1>9
  <2>3. ASSUME NEW i \in C, NEW j \in K, NEW k \in w[a.kids[i]].ks
        PROVE  IF j < i THEN a.keys[j] <= k ELSE k < a.keys[j]
    <3>1. k \in c(lo + i - 1).ks /\ a.keys[j] = n.keys[lo + j - 1]
          /\ lo + i - 1 \in 1..(L + 1) /\ lo + j - 1 \in 1..L /\ (j < i <=> lo + j - 1 < lo + i - 1)
      BY <1>5, <1>7, <1>9
    <3> QED
      BY <3>1, <1>8
  <2>5. \A j \in K : w[a.kids[j]].solid
    BY <1>7, <1>8, <1>9
  <2> QED
    BY <2>1, <2>2, <2>3, <2>5, <1>5, <1>6 DEF NodeOK
<1>11. KidsFilled(f, n) => KidsFilled(f, a)
  <2>1. ASSUME KidsFilled(f, n), NEW i \in C PROVE Len(f[a.kids[i]].keys) >= MinKeys
    <3>1. a.kids[i] = n.kids[lo + i - 1] /\ lo + i - 1 \in 1..Len(n.kids)
      BY <1>1, <1>5, <1>7
    <3> QED
      BY <2>1, <3>1, <1>1 DEF KidsFilled
  <2> QED
    BY <2>1, <1>5, <1>6 DEF KidsFilled
<1>12. Summary(f, w, n).h = c(1).h + 1
  BY <1>1 DEF Summary, NodeSummary
<1>13. /\ Summary(f, w, a).h = w[a.kids[1]].h + 1
       /\ Summary(f, w, a).e = UNION {w[a.kids[i]].e : i \in C}
       /\ Summary(f, w, a).ks = {a.keys[i] : i \in K} \cup UNION {w[a.kids[i]].ks : i \in C}
  BY <1>5, <1>6 DEF Summary, NodeSummary
<1>14. w[a.kids[1]].h = c(1).h
  <2>1. w[a.kids[1]] = c(lo) /\ c(lo).h = c(1).h
    BY <1>7, <1>8, <1>9
  <2> HIDE DEF c
  <2> QED
    BY <2>1
<1> DEFINE kk(i) == n.keys[i]
           KN == lo..(hi - 1)
           CN == lo..hi
<1>15. \A i \in K : a.keys[i] = kk(lo + i - 1)
  BY <1>5
<1>16. /\ \A i \in K : lo + i - 1 \in KN
       /\ \A i \in C : lo + i - 1 \in CN
       /\ \A i \in KN : i - lo + 1 \in K /\ lo + (i - lo + 1) - 1 = i
       /\ \A i \in CN : i - lo + 1 \in C /\ lo + (i - lo + 1) - 1 = i
  BY <1>7
<1>17. UNION {w[a.kids[i]].e : i \in C} = UNION {c(i).e : i \in CN}
  <2> HIDE DEF K, C, c, kk, KN, CN
  <2>1. ASSUME NEW x \in UNION {c(i).e : i \in CN} PROVE x \in UNION {w[a.kids[i]].e : i \in C}
    <3>1. PICK i \in CN : x \in c(i).e
      OBVIOUS
    <3>2. x \in w[a.kids[i - lo + 1]].e /\ i - lo + 1 \in C
      BY <3>1, <1>9, <1>16
    <3> QED
      BY <3>2
  <2>2. ASSUME NEW x \in UNION {w[a.kids[i]].e : i \in C} PROVE x \in UNION {c(i).e : i \in CN}
    <3>1. PICK i \in C : x \in w[a.kids[i]].e
      OBVIOUS
    <3> QED
      BY <3>1, <1>9, <1>16
  <2> QED
    BY <2>1, <2>2
<1>18. UNION {w[a.kids[i]].ks : i \in C} = UNION {c(i).ks : i \in CN}
  <2> HIDE DEF K, C, c, kk, KN, CN
  <2>1. ASSUME NEW x \in UNION {c(i).ks : i \in CN} PROVE x \in UNION {w[a.kids[i]].ks : i \in C}
    <3>1. PICK i \in CN : x \in c(i).ks
      OBVIOUS
    <3>2. x \in w[a.kids[i - lo + 1]].ks /\ i - lo + 1 \in C
      BY <3>1, <1>9, <1>16
    <3> QED
      BY <3>2
  <2>2. ASSUME NEW x \in UNION {w[a.kids[i]].ks : i \in C} PROVE x \in UNION {c(i).ks : i \in CN}
    <3>1. PICK i \in C : x \in w[a.kids[i]].ks
      OBVIOUS
    <3> QED
      BY <3>1, <1>9, <1>16
  <2> QED
    BY <2>1, <2>2
<1>19. {a.keys[i] : i \in K} = {kk(i) : i \in KN}
  <2> HIDE DEF K, C, c, kk, KN, CN
  <2>1. ASSUME NEW i \in KN PROVE kk(i) \in {a.keys[j] : j \in K}
    <3>1. kk(i) = a.keys[i - lo + 1] /\ i - lo + 1 \in K
      BY <1>15, <1>16
    <3> QED
      BY <3>1
  <2> QED
    BY <2>1, <1>15, <1>16
<1>20. a \in Records
  BY <1>5, RecordKinds
<1>21. Summary(f, w, a).h = Summary(f, w, n).h
  BY <1>12, <1>13, <1>14, Zenon
<1>22. Summary(f, w, a).e = UNION {w[n.kids[i]].e : i \in lo..hi}
  BY <1>13, <1>17, Zenon
<1>23. Summary(f, w, a).ks = {n.keys[i] : i \in lo..(hi - 1)} \cup UNION {w[n.kids[i]].ks : i \in lo..hi}
  BY <1>13, <1>18, <1>19, Zenon
<1>24. w[n.kids[hi]].solid /\ hi - lo >= MinKeys => Summary(f, w, a).solid
  <2>1. a.kids[Len(a.kids)] = n.kids[hi] /\ Len(a.keys) = hi - lo
    <3>1. Len(a.kids) = hi - lo + 1 /\ hi \in lo..hi
      BY <1>2, <1>5
    <3>2. hi - lo + 1 \in 1..(hi - lo + 1) /\ lo + (hi - lo + 1) - 1 = hi
      BY <1>2
    <3>3. \A i \in 1..(hi - lo + 1) : a.kids[i] = n.kids[lo + i - 1]
      BY <1>5
    <3>4. a.kids[hi - lo + 1] = n.kids[lo + (hi - lo + 1) - 1]
      BY <3>2, <3>3
    <3> QED
      BY <3>1, <3>2, <3>4, <1>5
  <2>2. Summary(f, w, a).solid = (Len(a.keys) >= MinKeys /\ w[a.kids[Len(a.kids)]].solid)
    BY <1>5 DEF Summary, NodeSummary
  <2> QED
    BY <2>1, <2>2
<1> QED
  BY <1>5, <1>10, <1>11, <1>20, <1>21, <1>22, <1>23, <1>24, Zenon DEF IsPart

\* The halves of an internal node fit and hold MinKeys keys; the key between them moves
\* up.
LEMMA SplitNodeIs ==
  ASSUME NEW f \in Seq(Records), NEW w, NEW n, NodeOK(f, w, n), NEW loaded \in BOOLEAN,
         loaded \/ KidsFilled(f, n), \A p \in Nodes(f) : SummaryOK(w[p]),
         Len(n.keys) >= Order, Len(n.keys) <= 2 * Order - 2
  PROVE  Halves(f, w, loaded, Summary(f, w, n), SplitNode(n).halves, SplitNode(n).seps)
<1> DEFINE mid == (Len(n.keys) + 1) \div 2
           L == Len(n.keys)
           a == Node(SubSeq(n.keys, 1, mid - 1), SubSeq(n.kids, 1, mid))
           b == Node(SubSeq(n.keys, mid + 1, L), SubSeq(n.kids, mid + 1, Len(n.kids)))
           hs == <<a, b>>
           s == n.keys[mid]
           c(i) == w[n.kids[i]]
<1>1. /\ n.kind = "node" /\ n.keys \in Seq(Keys) /\ n.kids \in Seq(Nat) /\ Len(n.kids) = L + 1 /\ L \in Nat
      /\ Ascends(n.keys)
  BY RecordKinds DEF NodeOK
<1>2. /\ mid \in 1..L /\ mid + 1 \in 1..L /\ mid \in Nat /\ mid - 1 < Order /\ L - mid < Order
      /\ mid - 1 >= MinKeys /\ L - mid >= MinKeys /\ mid >= 2 /\ mid - 1 \in 0..L
      /\ mid \in 1..(L + 1) /\ mid + 1 \in 1..(L + 1) /\ 1 \in 1..(L + 1) /\ L + 1 \in (mid + 1)..(L + 1)
  <2>1. L \in Nat /\ Order <= L /\ L <= 2 * Order - 2 /\ mid = (L + 1) \div 2
    BY <1>1, OrderAssumption
  <2> HIDE DEF L, mid
  <2> QED
    BY <2>1, MidIs
<1>3. SplitNode(n).halves = hs /\ SplitNode(n).seps = <<s>>
  BY <1>1 DEF SplitNode
<1> HIDE DEF mid
<1>4. /\ 1 \in 1..Len(n.kids) /\ mid \in 1..Len(n.kids) /\ mid + 1 \in 1..Len(n.kids)
      /\ Len(n.kids) \in (mid + 1)..Len(n.kids) /\ Len(n.kids) - 1 = L /\ mid \in 1..Len(n.kids)
      /\ Len(n.kids) = L + 1
  <2>1. L + 1 - 1 = L
    BY <1>1
  <2> QED
    BY <1>1, <1>2, <2>1
<1> HIDE DEF L
<1>5. /\ NodeOK(f, w, a) /\ a.kind = "node" /\ a \in Records /\ Len(a.keys) = mid - 1
      /\ KidsFilled(f, n) => KidsFilled(f, a)
      /\ Summary(f, w, a).h = Summary(f, w, n).h
      /\ Summary(f, w, a).e = UNION {c(i).e : i \in 1..mid}
      /\ Summary(f, w, a).ks = {n.keys[i] : i \in 1..(mid - 1)} \cup UNION {c(i).ks : i \in 1..mid}
      /\ c(mid).solid /\ mid - 1 >= MinKeys => Summary(f, w, a).solid
  <2> DEFINE lo == 1
  <2>1. lo \in 1..Len(n.kids) /\ mid \in lo..Len(n.kids) /\ a = Node(SubSeq(n.keys, lo, mid - 1), SubSeq(n.kids, lo, mid))
    BY <1>4
  <2> HIDE DEF a, lo
  <2>2. IsPart(f, w, n, lo, mid, a)
    BY <2>1, PartIs, Zenon
  <2> QED
    BY <2>2 DEF lo, IsPart
<1>6. /\ NodeOK(f, w, b) /\ b.kind = "node" /\ b \in Records /\ Len(b.keys) = L - mid
      /\ KidsFilled(f, n) => KidsFilled(f, b)
      /\ Summary(f, w, b).h = Summary(f, w, n).h
      /\ Summary(f, w, b).e = UNION {c(i).e : i \in (mid + 1)..(L + 1)}
      /\ Summary(f, w, b).ks = {n.keys[i] : i \in (mid + 1)..L} \cup UNION {c(i).ks : i \in (mid + 1)..(L + 1)}
      /\ c(L + 1).solid /\ L - mid >= MinKeys => Summary(f, w, b).solid
  <2> DEFINE H == L + 1
             lo == mid + 1
  <2>1. lo \in 1..Len(n.kids) /\ H \in lo..Len(n.kids)
    BY <1>4
  <2>2. H - lo = L - mid /\ H - 1 = L
    BY <1>1, <1>2 DEF L
  <2>3. b = Node(SubSeq(n.keys, lo, H - 1), SubSeq(n.kids, lo, H))
    BY <2>2, <1>4
  <2> HIDE DEF b, H, lo
  <2>4. IsPart(f, w, n, lo, H, b)
    BY <2>1, <2>3, PartIs, Zenon
  <2> QED
    BY <2>2, <2>4, Zenon DEF lo, H, IsPart
<1> HIDE DEF a, b
<1>7. /\ Summary(f, w, n).e = UNION {c(i).e : i \in 1..(L + 1)}
      /\ Summary(f, w, n).ks = {n.keys[i] : i \in 1..L} \cup UNION {c(i).ks : i \in 1..(L + 1)}
  BY <1>1 DEF Summary, NodeSummary, L
<1>8. /\ \A i \in 1..(L + 1), j \in 1..L : \A k \in c(i).ks :
           IF j < i THEN n.keys[j] <= k ELSE k < n.keys[j]
  BY <1>1 DEF NodeOK, L
<1>24. c(mid).solid /\ (Summary(f, w, n).solid => c(L + 1).solid)
  <2>1. mid \in 1..L
    BY <1>2 DEF L
  <2>2. c(mid).solid
    BY <2>1 DEF NodeOK, L
  <2>3. Summary(f, w, n).solid => w[n.kids[Len(n.kids)]].solid
    BY <1>1 DEF Summary, NodeSummary
  <2> QED
    BY <2>2, <2>3, <1>4
<1> DEFINE A == 1..mid
           B == (mid + 1)..(L + 1)
           N == 1..(L + 1)
           KA == 1..(mid - 1)
           KB == (mid + 1)..L
           KN == 1..L
<1>9. /\ A \subseteq N /\ B \subseteq N /\ N \subseteq A \cup B /\ KA \subseteq KN /\ KB \subseteq KN
      /\ 1 \in KA /\ mid \in KN
      /\ \A i \in A : ~ (mid < i)
      /\ \A i \in B : mid < i
      /\ \A i \in KA : i < mid
      /\ \A i \in KB : mid < i
  <2>1. L \in Nat /\ mid \in 2..L /\ mid < L
    <3>1. L \in Nat
      BY <1>1 DEF L
    <3> QED
      BY <3>1, <1>2
  <2> QED
    BY <2>1, MidRanges
<1>10. hs[1] = a /\ hs[2] = b /\ 1..2 = {1, 2} /\ Len(hs) = 2 /\ hs \in Seq(Records)
  BY <1>5, <1>6
<1>11. s \in Keys /\ s \in Nat /\ \A i \in KN : n.keys[i] \in Nat
  BY <1>1, <1>2, KeyRows DEF L
<1>12. Ascends(n.keys) /\ \A i, j \in KN : i < j => n.keys[i] < n.keys[j]
  BY <1>1 DEF Ascends, L
<1>13. /\ Summary(f, w, a).ks = {n.keys[i] : i \in KA} \cup UNION {c(i).ks : i \in A}
       /\ Summary(f, w, b).ks = {n.keys[i] : i \in KB} \cup UNION {c(i).ks : i \in B}
       /\ Summary(f, w, n).ks = {n.keys[i] : i \in KN} \cup UNION {c(i).ks : i \in N}
       /\ Summary(f, w, a).e = UNION {c(i).e : i \in A}
       /\ Summary(f, w, b).e = UNION {c(i).e : i \in B}
       /\ Summary(f, w, n).e = UNION {c(i).e : i \in N}
  BY <1>5, <1>6, <1>7
<1>14. \A i \in N, j \in KN : \A k \in c(i).ks : IF j < i THEN n.keys[j] <= k ELSE k < n.keys[j]
  BY <1>8
<1> HIDE DEF A, B, N, KA, KB, KN, c, hs
<1>15. UNION {Summary(f, w, hs[i]).e : i \in 1..2} = Summary(f, w, n).e
  <2>1. UNION {Summary(f, w, hs[i]).e : i \in 1..2} = Summary(f, w, a).e \cup Summary(f, w, b).e
    BY <1>10
  <2>2. Summary(f, w, a).e \subseteq Summary(f, w, n).e /\ Summary(f, w, b).e \subseteq Summary(f, w, n).e
    BY <1>9, <1>13
  <2>3. ASSUME NEW x \in Summary(f, w, n).e PROVE x \in Summary(f, w, a).e \cup Summary(f, w, b).e
    BY <1>9, <1>13
  <2> QED
    BY <2>1, <2>2, <2>3
<1>16. Summary(f, w, a).ks \subseteq Summary(f, w, n).ks /\ Summary(f, w, b).ks \subseteq Summary(f, w, n).ks
  BY <1>9, <1>13
<1>17. s \in Summary(f, w, n).ks
  BY <1>9, <1>13
<1>18. ASSUME NEW k \in Summary(f, w, a).ks PROVE k < s
  <2>1. CASE k \in {n.keys[i] : i \in KA}
    BY <2>1, <1>9, <1>12
  <2>2. CASE k \in UNION {c(i).ks : i \in A}
    BY <2>2, <1>9, <1>14
  <2> QED
    BY <2>1, <2>2, <1>13
<1>19. ASSUME NEW k \in Summary(f, w, b).ks PROVE s <= k
  <2>1. CASE k \in {n.keys[i] : i \in KB}
    <3>1. PICK i \in KB : k = n.keys[i]
      BY <2>1
    <3>2. s < k /\ k \in Nat
      BY <3>1, <1>9, <1>11, <1>12
    <3> QED
      BY <3>2, <1>11
  <2>2. CASE k \in UNION {c(i).ks : i \in B}
    BY <2>2, <1>9, <1>14
  <2> QED
    BY <2>1, <2>2, <1>13
<1>20. Summary(f, w, a).solid /\ (Summary(f, w, n).solid => Summary(f, w, b).solid)
  BY <1>2, <1>5, <1>6, <1>24
<1>21. <<s>> \in Seq(Summary(f, w, n).ks) /\ Len(<<s>>) = 1 /\ <<s>>[1] = s
  <2> HIDE DEF s
  <2> QED
    BY <1>17, OneIs, Zenon
<1> HIDE DEF s
<1>22. /\ RecordOK(f, w, a) /\ Len(a.keys) < Order /\ (loaded \/ KidsFilled(f, a)) /\ Len(a.keys) >= MinKeys
       /\ RecordOK(f, w, b) /\ Len(b.keys) < Order /\ (loaded \/ KidsFilled(f, b)) /\ Len(b.keys) >= MinKeys
  BY <1>2, <1>5, <1>6 DEF RecordOK
<1>23. ASSUME NEW i \in 1..2
       PROVE  /\ RecordOK(f, w, hs[i]) /\ Len(hs[i].keys) < Order /\ (loaded \/ KidsFilled(f, hs[i]))
              /\ Len(hs[i].keys) >= MinKeys
              /\ Summary(f, w, hs[i]).h = Summary(f, w, n).h
              /\ Summary(f, w, hs[i]).ks \subseteq Summary(f, w, n).ks
  <2>1. CASE i = 1
    BY <2>1, <1>5, <1>10, <1>16, <1>22
  <2>2. CASE i = 2
    BY <2>2, <1>6, <1>10, <1>16, <1>22
  <2> QED
    BY <2>1, <2>2, <1>10
<1> QED
  BY <1>3, <1>10, <1>15, <1>18, <1>19, <1>20, <1>21, <1>23 DEF Halves

\* A node that may be too large is cut into one or two that are not.
LEMMA FitIs ==
  ASSUME NEW f \in Seq(Records), NEW w, NEW n, RecordOK(f, w, n), NEW loaded \in BOOLEAN,
         loaded \/ KidsFilled(f, n), \A p \in Nodes(f) : SummaryOK(w[p]),
         Len(n.keys) <= 2 * Order - 2
  PROVE  /\ Halves(f, w, loaded, Summary(f, w, n), Fit(n).halves, Fit(n).seps)
         /\ Len(n.keys) < Order => Fit(n).halves = <<n>> /\ Fit(n).seps = <<>>
         /\ Len(n.keys) >= Order => Len(Fit(n).seps) = 1
<1>1. Len(n.keys) \in Nat /\ n \in Records /\ n.kind \in {"leaf", "node"}
  BY RecordKinds DEF RecordOK, LeafOK, NodeOK
<1>2. CASE Len(n.keys) < Order
  <2>1. Fit(n).halves = <<n>> /\ Fit(n).seps = <<>>
    BY <1>2 DEF Fit, Whole
  <2> DEFINE m == Summary(f, w, n)
             hs == <<n>>
             ss == <<>>
  <2>2. hs \in Seq(Records) /\ Len(hs) = 1 /\ hs[1] = n /\ 1..1 = {1}
    BY <1>1
  <2>3. ss \in Seq(m.ks) /\ Len(ss) = 0
    <3> HIDE DEF m
    <3> QED
      OBVIOUS
  <2> HIDE DEF hs, ss
  <2>4. UNION {Summary(f, w, hs[i]).e : i \in 1..1} = m.e
    BY <2>2
  <2>5. Halves(f, w, loaded, m, hs, ss)
    BY <2>2, <2>3, <2>4, <1>2 DEF Halves
  <2> QED
    BY <2>1, <2>5, <1>1, <1>2, OrderAssumption DEF hs, ss
<1>3. CASE ~ (Len(n.keys) < Order)
  <2>1. Len(n.keys) >= Order
    BY <1>1, <1>3, OrderAssumption
  <2>2. CASE n.kind = "leaf"
    <3>1. LeafOK(f, n)
      BY <2>2, RecordKinds DEF RecordOK, NodeOK
    <3>2. Fit(n) = SplitLeaf(n)
      BY <1>3, <2>2 DEF Fit
    <3>3. Halves(f, w, loaded, Summary(f, w, n), SplitLeaf(n).halves, SplitLeaf(n).seps)
      BY <2>1, <3>1, SplitLeafIs
    <3>4. Len(SplitLeaf(n).seps) = 1
      BY DEF SplitLeaf
    <3> QED
      BY <1>3, <3>2, <3>3, <3>4
  <2>3. CASE n.kind = "node"
    <3>1. NodeOK(f, w, n)
      BY <2>3, RecordKinds DEF RecordOK, LeafOK
    <3>2. Fit(n) = SplitNode(n)
      BY <1>3, <2>3 DEF Fit
    <3>3. Halves(f, w, loaded, Summary(f, w, n), SplitNode(n).halves, SplitNode(n).seps)
      BY <2>1, <3>1, SplitNodeIs
    <3>4. Len(SplitNode(n).seps) = 1
      BY DEF SplitNode
    <3> QED
      BY <1>3, <3>2, <3>3, <3>4
  <2> QED
    BY <1>1, <2>2, <2>3
<1> QED
  BY <1>2, <1>3

-----------------------------------------------------------------------------
(* The children from i on, c of them, are replaced by ps, with the keys    *)
(* seps between these.                                                     *)

\* Child j of the new node, of d more than the old one, is new, or an old one on either
\* side.
PlaceIndex(L, i, c, q, d) ==
  /\ d = q + 1 - c /\ L + d \in Nat /\ d \in Int
  /\ \A j \in 1..(L + d + 1) :
       \/ j \in 1..(i - 1)
       \/ j \in i..(i + q) /\ j - i + 1 \in 1..(q + 1) /\ i - 1 + (j - i + 1) = j
       \/ j \in (i + q + 1)..(L + d + 1)
  /\ \A j \in 1..(L + d) :
       \/ j \in 1..(i - 1)
       \/ j = i /\ q = 1
       \/ j \in (i + q)..(L + d)
  /\ \A j \in 1..(i - 1) : j \in 1..L /\ j \in 1..(L + 1) /\ j \in 1..(L + d) /\ j \in 1..(L + d + 1) /\ j < i
                           /\ j < i + c /\ j < i + c - 1
  /\ \A j \in (i + q + 1)..(L + d + 1) : j - d \in 1..(L + 1) /\ j - d \in (i + c)..(L + 1) /\ j \in 1..(L + d + 1)
  /\ \A j \in (i + q)..(L + d) : j - d \in 1..L /\ j - d \in (i + c - 1)..L /\ j \in 1..(L + d)
  /\ \A j \in (i + c)..(L + 1) : j + d \in (i + q + 1)..(L + d + 1) /\ (j + d) - d = j /\ j \in 1..(L + 1)
  /\ \A j \in (i + c - 1)..L : j + d \in (i + q)..(L + d) /\ (j + d) - d = j /\ j \in 1..L
  /\ \A a \in 1..(q + 1) : i - 1 + a \in 1..(L + d + 1)
  /\ (q = 1 => i \in 1..(L + d))

LEMMA PlaceIndexIs ==
  ASSUME NEW L \in Nat, NEW i \in Nat, i >= 1, NEW c \in {1, 2}, i + c <= L + 2, NEW q \in {0, 1},
         NEW d, d = q + 1 - c
  PROVE  PlaceIndex(L, i, c, q, d)
<1>1. /\ d = q + 1 - c /\ L + d \in Nat /\ d \in Int /\ c \in Nat /\ q \in Nat
  OBVIOUS
<1>2. /\ \A j \in 1..(i - 1) : j \in 1..L /\ j \in 1..(L + 1) /\ j \in 1..(L + d) /\ j \in 1..(L + d + 1) /\ j < i
                           /\ j < i + c /\ j < i + c - 1
  OBVIOUS
<1>3. /\ \A j \in 1..(L + d + 1) :
       \/ j \in 1..(i - 1)
       \/ j \in i..(i + q) /\ j - i + 1 \in 1..(q + 1) /\ i - 1 + (j - i + 1) = j
       \/ j \in (i + q + 1)..(L + d + 1)
  OBVIOUS
<1>4. /\ \A j \in 1..(L + d) :
       \/ j \in 1..(i - 1)
       \/ j = i /\ q = 1
       \/ j \in (i + q)..(L + d)
  OBVIOUS
<1>5. /\ \A j \in (i + q + 1)..(L + d + 1) : j - d \in 1..(L + 1) /\ j - d \in (i + c)..(L + 1) /\ j \in 1..(L + d + 1)
  OBVIOUS
<1>6. /\ \A j \in (i + q)..(L + d) : j - d \in 1..L /\ j - d \in (i + c - 1)..L /\ j \in 1..(L + d)
  OBVIOUS
<1>7. /\ \A j \in (i + c)..(L + 1) : j + d \in (i + q + 1)..(L + d + 1) /\ (j + d) - d = j /\ j \in 1..(L + 1)
  OBVIOUS
<1>8. /\ \A j \in (i + c - 1)..L : j + d \in (i + q)..(L + d) /\ (j + d) - d = j /\ j \in 1..L
  OBVIOUS
<1>9. /\ \A a \in 1..(q + 1) : i - 1 + a \in 1..(L + d + 1)
      /\ (q = 1 => i \in 1..(L + d))
  OBVIOUS
<1> QED
  BY <1>1, <1>2, <1>3, <1>4, <1>5, <1>6, <1>7, <1>8, <1>9, Zenon DEF PlaceIndex

LEMMA LastPlace ==
  ASSUME NEW L \in Nat, NEW i \in Nat, NEW c \in {1, 2}, i + c <= L + 2, ~(i + c <= L + 1), NEW q \in {0, 1},
         NEW d, d = q + 1 - c
  PROVE  i - 1 + (q + 1) = L + d + 1 /\ q + 1 \in 1..(q + 1)
OBVIOUS

\* A key that lies where the children do that are replaced.
Inside(n, i, c, k) ==
  /\ \A j \in 1..(i - 1) : n.keys[j] <= k
  /\ \A j \in (i + c - 1)..Len(n.keys) : k < n.keys[j]

\* What comes in fits in, in h with the summaries u.
Incoming(w, g, u, n, i, c, ps, seps) ==
  /\ ps \in Seq(Nat) /\ seps \in Seq(Keys) /\ Len(seps) \in {0, 1} /\ Len(ps) = Len(seps) + 1
  /\ \A a \in 1..Len(ps) :
       /\ ps[a] \in Nodes(g) /\ u[ps[a]].h = w[n.kids[1]].h
       /\ \A k \in u[ps[a]].ks : Inside(n, i, c, k)
       /\ a < Len(ps) \/ i + c <= Len(n.kids) => u[ps[a]].solid
  /\ Len(seps) = 1 =>
       /\ \A j \in 1..(i - 1) : n.keys[j] < seps[1]
       /\ \A j \in (i + c - 1)..Len(n.keys) : seps[1] < n.keys[j]
       /\ \A k \in u[ps[1]].ks : k < seps[1]
       /\ \A k \in u[ps[2]].ks : seps[1] <= k

Replaced(f, w, g, u, n, i, c, ps, seps, new) ==
  /\ NodeOK(g, u, new) /\ new.kind = "node" /\ new \in Records
  /\ Len(new.keys) = Len(n.keys) - (c - 1) + Len(seps)
  /\ KidsFilled(f, n) /\ (\A a \in 1..Len(ps) : Len(g[ps[a]].keys) >= MinKeys) => KidsFilled(g, new)
  /\ Summary(g, u, new).h = Summary(f, w, n).h
  /\ Summary(g, u, new).e = (UNION {w[n.kids[j]].e : j \in 1..(i - 1)}) \cup (UNION {u[ps[a]].e : a \in 1..Len(ps)})
                              \cup (UNION {w[n.kids[j]].e : j \in (i + c)..Len(n.kids)})
  /\ Summary(g, u, new).ks \subseteq Summary(f, w, n).ks \cup {seps[a] : a \in 1..Len(seps)}
                                       \cup UNION {u[ps[a]].ks : a \in 1..Len(ps)}
  /\ (IF i + c <= Len(n.kids) THEN Tailed(w, n) ELSE u[ps[Len(ps)]].solid) => Tailed(u, new)

\* The children and the separators of the new node are in order, as the old ones were.
InOrder(L, i, c, q, d, key, key2, seps, ks, ks2, in) ==
  /\ L \in Nat /\ i \in Nat /\ i >= 1 /\ c \in Nat /\ c >= 1 /\ i + c <= L + 2 /\ q \in {0, 1}
  /\ d \in Int /\ PlaceIndex(L, i, c, q, d)
  /\ Moved(key, key2, seps, i, q, L + d, d)
  /\ (\A j \in 1..L : key[j] \in Nat) /\ (q = 1 => seps[1] \in Nat)
  /\ \A a, b \in 1..L : a < b => key[a] < key[b]
  /\ Moved(ks, ks2, in, i, q + 1, L + d + 1, d)
  /\ \A j \in 1..(L + d + 1) : ks2[j] \in SUBSET Nat
  /\ \A j \in 1..(L + 1), l \in 1..L : \A k \in ks[j] : IF l < j THEN key[l] <= k ELSE k < key[l]
  /\ \A a \in 1..(q + 1) : \A k \in in[a] :
       /\ \A j \in 1..(i - 1) : key[j] <= k
       /\ \A j \in (i + c - 1)..L : k < key[j]
  /\ q = 1 => /\ \A j \in 1..(i - 1) : key[j] < seps[1]
              /\ \A j \in (i + c - 1)..L : seps[1] < key[j]
              /\ \A k \in in[1] : k < seps[1]
              /\ \A k \in in[2] : seps[1] <= k

Ordered(M, key, ks) ==
  /\ \A a, b \in 1..M : a < b => key[a] < key[b]
  /\ \A j \in 1..(M + 1), l \in 1..M : \A k \in ks[j] : IF l < j THEN key[l] <= k ELSE k < key[l]

\* So it is when the new separators lie where the children did that are replaced.
LEMMA MovedOrder ==
  ASSUME NEW L, NEW i, NEW c, NEW q, NEW d, NEW key, NEW key2, NEW seps, NEW ks, NEW ks2, NEW in,
         InOrder(L, i, c, q, d, key, key2, seps, ks, ks2, in)
  PROVE  Ordered(L + d, key2, ks2)
<1> USE DEF InOrder
<1> USE DEF PlaceIndex
<1>1. /\ \A j \in 1..(i - 1) : key2[j] = key[j]
      /\ q = 1 => key2[i] = seps[1]
      /\ \A j \in (i + q)..(L + d) : key2[j] = key[j - d]
  <2>1. q = 1 => 1 \in 1..q /\ i - 1 + 1 = i
    OBVIOUS
  <2> QED
    BY <2>1 DEF Moved
<1>2. /\ \A j \in 1..(i - 1) : ks2[j] = ks[j]
      /\ \A a \in 1..(q + 1) : ks2[i - 1 + a] = in[a]
      /\ \A j \in (i + q + 1)..(L + d + 1) : ks2[j] = ks[j - d]
  <2>1. i + (q + 1) = i + q + 1
    OBVIOUS
  <2> QED
    BY <2>1 DEF Moved
<1>3. ASSUME NEW a \in 1..(L + d), NEW b \in 1..(L + d), a < b PROVE key2[a] < key2[b]
  <2>2. CASE a \in 1..(i - 1) /\ b \in 1..(i - 1)
    BY <2>2, <1>1, <1>3
  <2>3. CASE a \in 1..(i - 1) /\ b = i /\ q = 1
    BY <2>3, <1>1
  <2>4. CASE a \in 1..(i - 1) /\ b \in (i + q)..(L + d)
    <3>1. b - d \in 1..L /\ b - d \in (i + c - 1)..L /\ a \in 1..L /\ a < i
      BY <2>4
    <3>2. a < b - d
      BY <3>1
    <3> QED
      BY <2>4, <3>1, <3>2, <1>1
  <2>5. CASE a = i /\ q = 1 /\ b \in (i + q)..(L + d)
    <3>1. b - d \in (i + c - 1)..L
      BY <2>5
    <3> QED
      BY <2>5, <3>1, <1>1
  <2>6. CASE a \in (i + q)..(L + d) /\ b \in (i + q)..(L + d)
    <3>1. b - d \in 1..L /\ a - d \in 1..L
      BY <2>6
    <3>2. a - d < b - d
      BY <2>6, <1>3
    <3> QED
      BY <2>6, <3>1, <3>2, <1>1
  <2>7. ~ (a = i /\ b = i) /\ ~ (b \in 1..(i - 1) /\ a = i)
        /\ ~ (b \in 1..(i - 1) /\ a \in (i + q)..(L + d)) /\ ~ (b = i /\ q = 1 /\ a \in (i + q)..(L + d))
    BY <1>3
  <2> QED
    BY <2>2, <2>3, <2>4, <2>5, <2>6, <2>7
<1>4. ASSUME NEW j \in 1..(L + d + 1), NEW l \in 1..(L + d), NEW k \in ks2[j]
      PROVE  IF l < j THEN key2[l] <= k ELSE k < key2[l]
  <2>0. k \in Nat
    BY <1>4
  <2>1. CASE j \in 1..(i - 1)
    <3>1. k \in ks[j] /\ j \in 1..(L + 1) /\ j < i
      BY <2>1, <1>2, <1>4
    <3>2. CASE l \in 1..(i - 1)
      BY <3>1, <3>2, <1>1
    <3>3. CASE l = i /\ q = 1
      <4>1. i - 1 \in 1..(i - 1) /\ i - 1 \in 1..L /\ ~ (i - 1 < j)
        BY <3>1
      <4>2. k < key[i - 1] /\ key[i - 1] < seps[1]
        BY <3>1, <3>3, <4>1
      <4>3. ~ (l < j) /\ key2[l] = seps[1]
        BY <3>1, <3>3, <1>1
      <4> QED
        BY <2>0, <3>3, <4>1, <4>2, <4>3
    <3>4. CASE l \in (i + q)..(L + d)
      <4>1. l - d \in 1..L /\ l - d \in (i + c - 1)..L
        BY <3>4
      <4>2. ~ (l - d < j) /\ ~ (l < j)
        BY <3>1, <3>4, <4>1
      <4> QED
        BY <3>1, <3>4, <4>1, <4>2, <1>1
    <3> QED
      BY <3>2, <3>3, <3>4
  <2>2. CASE j \in i..(i + q) /\ j - i + 1 \in 1..(q + 1) /\ i - 1 + (j - i + 1) = j
    <3>1. k \in in[j - i + 1]
      BY <2>2, <1>2, <1>4
    <3>2. CASE l \in 1..(i - 1)
      <4>1. l < j /\ key2[l] = key[l] /\ key[l] <= k
        BY <3>1, <3>2, <2>2, <1>1
      <4> QED
        BY <4>1
    <3>3. CASE l = i /\ q = 1
      <4>1. j - i + 1 = 1 \/ j - i + 1 = 2
        BY <2>2, <3>3
      <4>2. CASE j - i + 1 = 1
        <5>1. ~ (l < j) /\ key2[l] = seps[1] /\ k < seps[1]
          BY <3>1, <3>3, <4>2, <2>2, <1>1
        <5> QED
          BY <5>1
      <4>3. CASE j - i + 1 = 2
        <5>1. l < j /\ key2[l] = seps[1] /\ seps[1] <= k
          BY <3>1, <3>3, <4>3, <2>2, <1>1
        <5> QED
          BY <5>1
      <4> QED
        BY <4>1, <4>2, <4>3
    <3>4. CASE l \in (i + q)..(L + d)
      <4>1. l - d \in (i + c - 1)..L
        BY <3>4
      <4>2. ~ (l < j)
        BY <2>2, <3>4
      <4>3. k < key[l - d]
        BY <2>2, <3>1, <4>1
      <4> QED
        BY <3>4, <4>2, <4>3, <1>1
    <3> QED
      BY <3>2, <3>3, <3>4
  <2>3. CASE j \in (i + q + 1)..(L + d + 1)
    <3>1. k \in ks[j - d] /\ j - d \in 1..(L + 1) /\ j - d \in (i + c)..(L + 1)
      BY <2>3, <1>2, <1>4
    <3>2. CASE l \in 1..(i - 1)
      <4>1. l < j - d /\ l < j /\ l \in 1..L
        BY <2>3, <3>1, <3>2
      <4> QED
        BY <3>1, <3>2, <4>1, <1>1
    <3>3. CASE l = i /\ q = 1
      <4>1. i + c - 1 \in 1..L /\ i + c - 1 < j - d /\ i + c - 1 \in (i + c - 1)..L
        BY <3>1
      <4>2. key[i + c - 1] <= k /\ seps[1] < key[i + c - 1]
        BY <3>1, <3>3, <4>1
      <4>3. l < j /\ key2[l] = seps[1]
        BY <2>3, <3>3, <1>1
      <4> QED
        BY <2>0, <3>3, <4>1, <4>2, <4>3
    <3>4. CASE l \in (i + q)..(L + d)
      <4>1. l - d \in 1..L
        BY <3>4
      <4>2. l - d < j - d <=> l < j
        BY <2>3, <3>4
      <4> QED
        BY <3>1, <3>4, <4>1, <4>2, <1>1
    <3> QED
      BY <3>2, <3>3, <3>4
  <2> QED
    BY <2>1, <2>2, <2>3
<1> QED
  BY <1>3, <1>4 DEF Ordered

\* The union over the places of a sequence of children with some of them replaced.
InPlace(L, i, c, q, d, x, y, in) ==
  /\ L \in Nat /\ i \in Nat /\ i >= 1 /\ c \in Nat /\ c >= 1 /\ i + c <= L + 2 /\ q \in {0, 1}
  /\ d \in Int /\ PlaceIndex(L, i, c, q, d)
  /\ Moved(x, y, in, i, q + 1, L + d + 1, d)

UnionIs(L, i, c, q, d, x, y, in) ==
  UNION {y[j] : j \in 1..(L + d + 1)}
    = (UNION {x[j] : j \in 1..(i - 1)}) \cup (UNION {in[a] : a \in 1..(q + 1)})
        \cup (UNION {x[j] : j \in (i + c)..(L + 1)})

LEMMA MovedUnion ==
  ASSUME NEW L, NEW i, NEW c, NEW q, NEW d, NEW x, NEW y, NEW in, InPlace(L, i, c, q, d, x, y, in)
  PROVE  UnionIs(L, i, c, q, d, x, y, in)
<1> DEFINE l == (UNION {x[j] : j \in 1..(i - 1)})
           m == (UNION {in[a] : a \in 1..(q + 1)})
           r == (UNION {x[j] : j \in (i + c)..(L + 1)})
           s == UNION {y[j] : j \in 1..(L + d + 1)}
<1>1. /\ \A j \in 1..(i - 1) : y[j] = x[j]
      /\ \A a \in 1..(q + 1) : y[i - 1 + a] = in[a]
      /\ \A j \in (i + q + 1)..(L + d + 1) : y[j] = x[j - d]
  <2>1. i + (q + 1) = i + q + 1
    BY DEF InPlace
  <2> QED
    BY <2>1 DEF Moved, InPlace
<1> USE DEF PlaceIndex, InPlace
<1>2. ASSUME NEW e \in s PROVE e \in l \cup m \cup r
  <2>1. PICK j \in 1..(L + d + 1) : e \in y[j]
    BY <1>2
  <2>2. CASE j \in 1..(i - 1)
    <3>1. e \in x[j]
      BY <2>1, <2>2, <1>1
    <3>2. e \in l
      BY <2>2, <3>1
    <3> QED
      BY <3>2
  <2>3. CASE j \in i..(i + q) /\ j - i + 1 \in 1..(q + 1) /\ i - 1 + (j - i + 1) = j
    <3>1. e \in m
      BY <2>1, <2>3, <1>1
    <3> QED
      BY <3>1
  <2>4. CASE j \in (i + q + 1)..(L + d + 1)
    <3>1. e \in x[j - d] /\ j - d \in (i + c)..(L + 1)
      BY <2>1, <2>4, <1>1
    <3>2. e \in r
      BY <3>1
    <3> QED
      BY <3>2
  <2> QED
    BY <2>2, <2>3, <2>4
<1>3. ASSUME NEW e \in l PROVE e \in s
  <2>1. PICK j \in 1..(i - 1) : e \in x[j]
    BY <1>3
  <2> QED
    BY <2>1, <1>1
<1>4. ASSUME NEW e \in m PROVE e \in s
  <2>1. PICK a \in 1..(q + 1) : e \in in[a]
    BY <1>4
  <2>2. e \in y[i - 1 + a] /\ i - 1 + a \in 1..(L + d + 1)
    BY <2>1, <1>1
  <2> QED
    BY <2>2
<1>5. ASSUME NEW e \in r PROVE e \in s
  <2>1. PICK j \in (i + c)..(L + 1) : e \in x[j]
    BY <1>5
  <2>2. e \in y[j + d] /\ j + d \in 1..(L + d + 1)
    BY <2>1, <1>1
  <2> QED
    BY <2>2
<1> HIDE DEF l, m, r, s
<1>6. s = l \cup m \cup r
  BY <1>2, <1>3, <1>4, <1>5
<1> QED
  BY <1>6 DEF l, m, r, s, UnionIs

\* A node with some of its children replaced by what fits in their place is in order,
\* and its entries are those of the new children and of the ones that stayed.
LEMMA ReplaceIs ==
  ASSUME NEW f \in Seq(Records), NEW w, NEW g \in Seq(Records), NEW u, Extends(f, g), Agrees(f, w, u),
         NEW n, NodeOK(f, w, n), NEW c \in {1, 2}, NEW i \in Nat, i >= 1, i + c <= Len(n.kids) + 1,
         NEW ps, NEW seps, Incoming(w, g, u, n, i, c, ps, seps), \A p \in Nodes(g) : SummaryOK(u[p]),
         NEW new, new = Node(Splice(n.keys, i, c - 1, seps), Splice(n.kids, i, c, ps))
  PROVE  Replaced(f, w, g, u, n, i, c, ps, seps, new)
<1>1. /\ n.kind = "node" /\ n.keys \in Seq(Keys) /\ n.kids \in Seq(Nat) /\ Len(n.kids) = Len(n.keys) + 1
      /\ Len(n.keys) \in Nat /\ Ascends(n.keys)
  BY RecordKinds DEF NodeOK
<1>2. PICK L \in Nat : L = Len(n.keys)
  BY <1>1
<1>3. PICK q \in {0, 1} : q = Len(seps)
  BY DEF Incoming
<1>4. PICK d \in Int : d = q + 1 - c
  OBVIOUS
<1>5. c \in Nat /\ c >= 1 /\ i + c <= L + 2 /\ PlaceIndex(L, i, c, q, d)
  <2>1. c \in Nat /\ c >= 1
    OBVIOUS
  <2>2. i + c <= L + 1 + 1
    BY <1>1, <1>2
  <2>3. i + c <= L + 2
    BY <2>1, <2>2
  <2> QED
    BY <2>1, <2>3, <1>4, PlaceIndexIs
<1>6. /\ \A j \in 1..(L + 1) : n.kids[j] \in Nodes(f) /\ w[n.kids[j]].h = w[n.kids[1]].h
      /\ \A j \in 1..(L + 1), l \in 1..L : \A k \in w[n.kids[j]].ks : IF l < j THEN n.keys[l] <= k ELSE k < n.keys[l]
      /\ \A j \in 1..L : w[n.kids[j]].solid
  BY <1>1, <1>2 DEF NodeOK
<1>7. /\ ps \in Seq(Nat) /\ seps \in Seq(Keys) /\ Len(ps) = q + 1
      /\ \A a \in 1..(q + 1) : ps[a] \in Nodes(g) /\ u[ps[a]].h = w[n.kids[1]].h
      /\ \A a \in 1..(q + 1) : \A k \in u[ps[a]].ks :
           /\ \A j \in 1..(i - 1) : n.keys[j] <= k
           /\ \A j \in (i + c - 1)..L : k < n.keys[j]
      /\ q = 1 => /\ \A j \in 1..(i - 1) : n.keys[j] < seps[1]
                  /\ \A j \in (i + c - 1)..L : seps[1] < n.keys[j]
                  /\ \A k \in u[ps[1]].ks : k < seps[1]
                  /\ \A k \in u[ps[2]].ks : seps[1] <= k
  BY <1>2, <1>3 DEF Incoming, Inside
<1>8. new.kids \in Seq(Nat) /\ Len(new.kids) = L + d + 1 /\ Moved(n.kids, new.kids, ps, i, q + 1, L + d + 1, d)
  <2>1. d = Len(ps) - c /\ new.kids = Splice(n.kids, i, c, ps)
    BY <1>4, <1>7 DEF Node
  <2>2. Len(n.kids) + d = L + d + 1
    BY <1>1, <1>2
  <2>4. n.kids \in Seq(Nat) /\ ps \in Seq(Nat) /\ c \in Nat
    BY <1>1, <1>5, <1>7
  <2>3. new.kids \in Seq(Nat) /\ Len(new.kids) = Len(n.kids) + d
        /\ Moved(n.kids, new.kids, ps, i, Len(ps), Len(n.kids) + d, d)
    <3>1. Spliced(Nat, n.kids, ps, i, c, d, new.kids)
      BY <2>1, <2>4 DEF Spliced
    <3> QED
      BY <3>1, MovedIs
  <2> QED
    BY <2>2, <2>3, <1>7
<1>9. new.keys \in Seq(Keys) /\ Len(new.keys) = L + d /\ Moved(n.keys, new.keys, seps, i, q, L + d, d)
  <2>1. d = Len(seps) - (c - 1) /\ new.keys = Splice(n.keys, i, c - 1, seps) /\ c - 1 \in Nat
    BY <1>3, <1>4 DEF Node
  <2>2. i + (c - 1) <= Len(n.keys) + 1
    <3>1. i + (c - 1) <= L + 1
      BY <1>5
    <3> QED
      BY <3>1, <1>2
  <2>4. n.keys \in Seq(Keys) /\ seps \in Seq(Keys)
    BY <1>1, <1>7
  <2>3. new.keys \in Seq(Keys) /\ Len(new.keys) = Len(n.keys) + d
        /\ Moved(n.keys, new.keys, seps, i, Len(seps), Len(n.keys) + d, d)
    <3>1. Spliced(Keys, n.keys, seps, i, c - 1, d, new.keys)
      BY <2>1, <2>2, <2>4 DEF Spliced
    <3> QED
      BY <3>1, MovedIs
  <2> QED
    BY <2>3, <1>2, <1>3
<1>10. new.kind = "node" /\ new \in NodeRecords /\ new \in Records
  <2>1. new.kind = "node" /\ new = [kind |-> "node", keys |-> new.keys, kids |-> new.kids]
    BY DEF Node
  <2>2. new \in NodeRecords
    BY <2>1, <1>8, <1>9 DEF NodeRecords
  <2> QED
    BY <2>1, <2>2, RecordKinds
<1>11. \A j \in 1..(L + 1) : n.kids[j] \in Nodes(g) /\ g[n.kids[j]] = f[n.kids[j]] /\ u[n.kids[j]] = w[n.kids[j]]
  BY <1>6, NodesGrow DEF Agrees
\* What holds of the children that stay and of those that come holds of all.
<1>12. ASSUME NEW j \in 1..(L + d + 1)
       PROVE  \/ j \in 1..(i - 1) /\ j \in 1..(L + 1) /\ new.kids[j] = n.kids[j]
              \/ j - i + 1 \in 1..(q + 1) /\ new.kids[j] = ps[j - i + 1]
              \/ j \in (i + q + 1)..(L + d + 1) /\ j - d \in 1..(L + 1) /\ new.kids[j] = n.kids[j - d]
  <2>1. i + (q + 1) = i + q + 1
    OBVIOUS
  <2> QED
    BY <2>1, <1>5, <1>8 DEF Moved, PlaceIndex
<1>13. \A j \in 1..(L + d + 1) : new.kids[j] \in Nodes(g) /\ u[new.kids[j]].h = w[n.kids[1]].h
  <2> DEFINE Z == {x \in Nodes(g) : u[x].h = w[n.kids[1]].h}
  <2>1. \A j \in 1..(L + 1) : n.kids[j] \in Z
    BY <1>6, <1>11
  <2>2. \A a \in 1..(q + 1) : ps[a] \in Z
    BY <1>7
  <2> HIDE DEF Z
  <2>3. \A j \in 1..(L + d + 1) : new.kids[j] \in Z
    BY <2>1, <2>2, <1>12
  <2> QED
    BY <2>3 DEF Z
<1> DEFINE ks == [j \in 1..(L + 1) |-> w[n.kids[j]].ks]
           ks2 == [j \in 1..(L + d + 1) |-> u[new.kids[j]].ks]
           ksi == [a \in 1..(q + 1) |-> u[ps[a]].ks]
           e == [j \in 1..(L + 1) |-> w[n.kids[j]].e]
           e2 == [j \in 1..(L + d + 1) |-> u[new.kids[j]].e]
           ei == [a \in 1..(q + 1) |-> u[ps[a]].e]
<1>14. Moved(ks, ks2, ksi, i, q + 1, L + d + 1, d) /\ Moved(e, e2, ei, i, q + 1, L + d + 1, d)
  <2>1. \A j \in 1..(i - 1) : j \in 1..(L + 1) /\ j \in 1..(L + d + 1)
    BY <1>5 DEF PlaceIndex
  <2>2. \A a \in 1..(q + 1) : i - 1 + a \in 1..(L + d + 1)
    BY <1>5 DEF PlaceIndex
  <2>3. \A j \in (i + (q + 1))..(L + d + 1) : j \in 1..(L + d + 1) /\ j - d \in 1..(L + 1)
    <3>1. i + (q + 1) = i + q + 1
      OBVIOUS
    <3> QED
      BY <3>1, <1>5 DEF PlaceIndex
  <2>4. \A j \in 1..(i - 1) : new.kids[j] = n.kids[j] /\ u[n.kids[j]] = w[n.kids[j]]
    BY <2>1, <1>8, <1>11 DEF Moved
  <2>5. \A a \in 1..(q + 1) : new.kids[i - 1 + a] = ps[a]
    BY <1>8 DEF Moved
  <2>6. \A j \in (i + (q + 1))..(L + d + 1) : new.kids[j] = n.kids[j - d] /\ u[n.kids[j - d]] = w[n.kids[j - d]]
    BY <2>3, <1>8, <1>11 DEF Moved
  <2>7. ASSUME NEW j \in 1..(i - 1) PROVE ks2[j] = ks[j] /\ e2[j] = e[j]
    BY <2>1, <2>4
  <2>8. ASSUME NEW a \in 1..(q + 1) PROVE ks2[i - 1 + a] = ksi[a] /\ e2[i - 1 + a] = ei[a]
    BY <2>2, <2>5
  <2>9. ASSUME NEW j \in (i + (q + 1))..(L + d + 1) PROVE ks2[j] = ks[j - d] /\ e2[j] = e[j - d]
    BY <2>3, <2>6
  <2> HIDE DEF ks, ks2, ksi, e, e2, ei
  <2> QED
    BY <2>7, <2>8, <2>9 DEF Moved
<1>15. /\ \A a, b \in 1..(L + d) : a < b => new.keys[a] < new.keys[b]
       /\ \A j \in 1..(L + d + 1), l \in 1..(L + d) : \A k \in ks2[j] :
            IF l < j THEN new.keys[l] <= k ELSE k < new.keys[l]
  <2>1. (\A j \in 1..L : n.keys[j] \in Nat) /\ (q = 1 => seps[1] \in Nat)
    <3>1. \A j \in 1..L : n.keys[j] \in Nat
      BY <1>1, <1>2, KeyRows
    <3>2. q = 1 => seps[1] \in Nat
      <4>1. ASSUME q = 1 PROVE 1 \in 1..Len(seps)
        <5>1. 1 \in 1..q
          BY <4>1
        <5> QED
          BY <5>1, <1>3
      <4> QED
        BY <4>1, <1>7, KeyRows
    <3> QED
      BY <3>1, <3>2
  <2>2. \A a, b \in 1..L : a < b => n.keys[a] < n.keys[b]
    BY <1>1, <1>2 DEF Ascends
  <2>3. \A j \in 1..(L + d + 1) : ks2[j] \in SUBSET Nat
    <3>1. Keys \subseteq Nat
      BY MapAssumption DEF Keys
    <3>2. \A j \in 1..(L + d + 1) : u[new.kids[j]].ks \in SUBSET Keys
      BY <1>13 DEF SummaryOK, Summaries
    <3> QED
      BY <3>1, <3>2
  <2>4. \A j \in 1..(L + 1), l \in 1..L : \A k \in ks[j] : IF l < j THEN n.keys[l] <= k ELSE k < n.keys[l]
    BY <1>6
  <2>5. \A a \in 1..(q + 1) : \A k \in ksi[a] :
           /\ \A j \in 1..(i - 1) : n.keys[j] <= k
           /\ \A j \in (i + c - 1)..L : k < n.keys[j]
    BY <1>7
  <2>6. q = 1 => /\ \A j \in 1..(i - 1) : n.keys[j] < seps[1]
                 /\ \A j \in (i + c - 1)..L : seps[1] < n.keys[j]
                 /\ \A k \in ksi[1] : k < seps[1]
                 /\ \A k \in ksi[2] : seps[1] <= k
    BY <1>7
  <2> HIDE DEF ks, ks2, ksi
  <2>7. InOrder(L, i, c, q, d, n.keys, new.keys, seps, ks, ks2, ksi)
    BY <2>1, <2>2, <2>3, <2>4, <2>5, <2>6, <1>5, <1>9, <1>14 DEF InOrder
  <2>8. Ordered(L + d, new.keys, ks2)
    BY <2>7, MovedOrder
  <2> QED
    BY <2>8 DEF Ordered
<1>24. \A a \in 1..(q + 1) : a < q + 1 \/ i + c <= L + 1 => u[ps[a]].solid
  BY <1>1, <1>2, <1>7 DEF Incoming
<1>25. ASSUME NEW j \in 1..(L + d) PROVE u[new.kids[j]].solid
  <2>1. j \in 1..(L + d + 1)
    BY <1>5 DEF PlaceIndex
  <2>2. CASE j \in 1..(i - 1) /\ j \in 1..(L + 1) /\ new.kids[j] = n.kids[j]
    BY <2>2, <1>5, <1>6, <1>11 DEF PlaceIndex
  <2>3. CASE j - i + 1 \in 1..(q + 1) /\ new.kids[j] = ps[j - i + 1]
    <3>1. j - i + 1 < q + 1 \/ i + c <= L + 1
      BY <2>3, <1>4, <1>5
    <3> QED
      BY <2>3, <3>1, <1>24
  <2>4. CASE j \in (i + q + 1)..(L + d + 1) /\ j - d \in 1..(L + 1) /\ new.kids[j] = n.kids[j - d]
    <3>1. j - d \in 1..L
      BY <2>4
    <3> QED
      BY <3>1, <2>4, <1>6, <1>11
  <2> QED
    BY <2>1, <2>2, <2>3, <2>4, <1>12
<1>16. NodeOK(g, u, new)
  <2>1. 1 \in 1..(L + d + 1)
    BY <1>5 DEF PlaceIndex
  <2>2. \A j \in 1..(L + d + 1) : u[new.kids[j]].h = u[new.kids[1]].h
    BY <2>1, <1>13
  <2>3. \A j \in 1..(L + d + 1), l \in 1..(L + d) : \A k \in u[new.kids[j]].ks :
          IF l < j THEN new.keys[l] <= k ELSE k < new.keys[l]
    BY <1>15
  <2>4. Ascends(new.keys)
    BY <1>9, <1>15 DEF Ascends
  <2> QED
    BY <2>2, <2>3, <2>4, <1>8, <1>9, <1>10, <1>13, <1>25 DEF NodeOK
<1>17. ASSUME KidsFilled(f, n), \A a \in 1..Len(ps) : Len(g[ps[a]].keys) >= MinKeys
       PROVE  KidsFilled(g, new)
  <2>1. \A j \in 1..(L + 1) : Len(f[n.kids[j]].keys) >= MinKeys
    BY <1>1, <1>2, <1>17 DEF KidsFilled
  <2> DEFINE Z == {x \in Nodes(g) : Len(g[x].keys) >= MinKeys}
  <2>3. \A j \in 1..(L + 1) : n.kids[j] \in Z
    BY <2>1, <1>11
  <2>4. \A a \in 1..(q + 1) : ps[a] \in Z
    BY <1>7, <1>17
  <2>5. \A j \in 1..(L + d + 1) : new.kids[j] \in Z
    <3> HIDE DEF Z
    <3> QED
      BY <2>3, <2>4, <1>12
  <2>2. \A j \in 1..(L + d + 1) : Len(g[new.kids[j]].keys) >= MinKeys
    BY <2>5
  <2> QED
    BY <2>2, <1>8, <1>10 DEF KidsFilled
<1>18. /\ Summary(g, u, new).h = u[new.kids[1]].h + 1
       /\ Summary(g, u, new).e = UNION {e2[j] : j \in 1..(L + d + 1)}
       /\ Summary(g, u, new).ks = {new.keys[j] : j \in 1..(L + d)} \cup UNION {ks2[j] : j \in 1..(L + d + 1)}
  <2>1. /\ Summary(g, u, new).h = u[new.kids[1]].h + 1
        /\ Summary(g, u, new).e = UNION {u[new.kids[j]].e : j \in 1..(L + d + 1)}
        /\ Summary(g, u, new).ks = {new.keys[j] : j \in 1..(L + d)} \cup UNION {u[new.kids[j]].ks : j \in 1..(L + d + 1)}
    BY <1>8, <1>9, <1>10 DEF Summary, NodeSummary
  <2>2. {u[new.kids[j]].e : j \in 1..(L + d + 1)} = {e2[j] : j \in 1..(L + d + 1)}
    OBVIOUS
  <2>3. {u[new.kids[j]].ks : j \in 1..(L + d + 1)} = {ks2[j] : j \in 1..(L + d + 1)}
    OBVIOUS
  <2> QED
    BY <2>1, <2>2, <2>3, Zenon
<1>19. /\ Summary(f, w, n).h = w[n.kids[1]].h + 1
       /\ Summary(f, w, n).ks = {n.keys[j] : j \in 1..L} \cup UNION {ks[j] : j \in 1..(L + 1)}
  BY <1>1, <1>2 DEF Summary, NodeSummary
<1>20. Summary(g, u, new).h = Summary(f, w, n).h
  <2>1. 1 \in 1..(L + d + 1)
    BY <1>5 DEF PlaceIndex
  <2> QED
    BY <2>1, <1>13, <1>18, <1>19
<1>21. Summary(g, u, new).e = (UNION {w[n.kids[j]].e : j \in 1..(i - 1)}) \cup (UNION {u[ps[a]].e : a \in 1..Len(ps)})
                                \cup (UNION {w[n.kids[j]].e : j \in (i + c)..Len(n.kids)})
  <2>1. UNION {e2[j] : j \in 1..(L + d + 1)}
          = (UNION {e[j] : j \in 1..(i - 1)}) \cup (UNION {ei[a] : a \in 1..(q + 1)})
              \cup (UNION {e[j] : j \in (i + c)..(L + 1)})
    <3> HIDE DEF e, e2, ei
    <3> QED
      <4>1. InPlace(L, i, c, q, d, e, e2, ei)
        BY <1>5, <1>14 DEF InPlace
      <4>2. UnionIs(L, i, c, q, d, e, e2, ei)
        BY <4>1, MovedUnion
      <4> QED
        BY <4>2 DEF UnionIs
  <2>2. /\ {e[j] : j \in 1..(i - 1)} = {w[n.kids[j]].e : j \in 1..(i - 1)}
        /\ {e[j] : j \in (i + c)..(L + 1)} = {w[n.kids[j]].e : j \in (i + c)..(L + 1)}
        /\ {ei[a] : a \in 1..(q + 1)} = {u[ps[a]].e : a \in 1..(q + 1)}
    <3>1. \A j \in 1..(i - 1) : j \in 1..(L + 1)
      BY <1>5 DEF PlaceIndex
    <3>2. \A j \in (i + c)..(L + 1) : j \in 1..(L + 1)
      BY <1>5 DEF PlaceIndex
    <3> QED
      BY <3>1, <3>2
  <2> QED
    BY <2>1, <2>2, <1>1, <1>2, <1>7, <1>18, Zenon
<1>22. Summary(g, u, new).ks \subseteq Summary(f, w, n).ks \cup {seps[a] : a \in 1..Len(seps)}
                                         \cup UNION {u[ps[a]].ks : a \in 1..Len(ps)}
  <2>1. UNION {ks2[j] : j \in 1..(L + d + 1)}
          = (UNION {ks[j] : j \in 1..(i - 1)}) \cup (UNION {ksi[a] : a \in 1..(q + 1)})
              \cup (UNION {ks[j] : j \in (i + c)..(L + 1)})
    <3> HIDE DEF ks, ks2, ksi
    <3> QED
      <4>1. InPlace(L, i, c, q, d, ks, ks2, ksi)
        BY <1>5, <1>14 DEF InPlace
      <4>2. UnionIs(L, i, c, q, d, ks, ks2, ksi)
        BY <4>1, MovedUnion
      <4> QED
        BY <4>2 DEF UnionIs
  <2>2. (UNION {ks[j] : j \in 1..(i - 1)}) \subseteq UNION {ks[j] : j \in 1..(L + 1)}
        /\ (UNION {ks[j] : j \in (i + c)..(L + 1)}) \subseteq UNION {ks[j] : j \in 1..(L + 1)}
    <3>1. (\A j \in 1..(i - 1) : j \in 1..(L + 1)) /\ (\A j \in (i + c)..(L + 1) : j \in 1..(L + 1))
      BY <1>5 DEF PlaceIndex
    <3> HIDE DEF ks
    <3> QED
      BY <3>1
  <2>3. (UNION {ksi[a] : a \in 1..(q + 1)}) = UNION {u[ps[a]].ks : a \in 1..Len(ps)}
    BY <1>7
  <2>4. ASSUME NEW j \in 1..(L + d) PROVE new.keys[j] \in {n.keys[l] : l \in 1..L} \cup {seps[a] : a \in 1..Len(seps)}
    <3>1. \/ j \in 1..(i - 1) /\ j \in 1..L /\ new.keys[j] = n.keys[j]
          \/ j = i /\ q = 1 /\ new.keys[i - 1 + 1] = seps[1] /\ i - 1 + 1 = i
          \/ j \in (i + q)..(L + d) /\ j - d \in 1..L /\ new.keys[j] = n.keys[j - d]
      BY <1>5, <1>9 DEF Moved, PlaceIndex
    <3> QED
      BY <3>1, <1>3
  <2>5. {new.keys[j] : j \in 1..(L + d)} \subseteq {n.keys[l] : l \in 1..L} \cup {seps[a] : a \in 1..Len(seps)}
    BY <2>4
  <2> DEFINE KN == {new.keys[j] : j \in 1..(L + d)}
             KO == {n.keys[l] : l \in 1..L}
             KS == {seps[a] : a \in 1..Len(seps)}
             UN == UNION {ks2[j] : j \in 1..(L + d + 1)}
             UO == UNION {ks[j] : j \in 1..(L + 1)}
             US == UNION {u[ps[a]].ks : a \in 1..Len(ps)}
  <2>6. KN \subseteq KO \cup KS /\ UN \subseteq UO \cup US
    BY <2>1, <2>2, <2>3, <2>5
  <2>7. Summary(g, u, new).ks = KN \cup UN /\ Summary(f, w, n).ks = KO \cup UO
    BY <1>18, <1>19
  <2> HIDE DEF KN, KO, KS, UN, UO, US
  <2>8. Summary(g, u, new).ks \subseteq Summary(f, w, n).ks \cup KS \cup US
    BY <2>6, <2>7
  <2> QED
    BY <2>8 DEF KS, US
<1>23. Len(new.keys) = Len(n.keys) - (c - 1) + Len(seps)
  <2>1. L + d = L - (c - 1) + q
    BY <1>4, <1>5
  <2> QED
    BY <2>1, <1>2, <1>3, <1>9
<1>26. ASSUME IF i + c <= L + 1 THEN Tailed(w, n) ELSE u[ps[Len(ps)]].solid
       PROVE  Tailed(u, new)
  <2>1. CASE i + c <= L + 1
    <3>1. L + d + 1 \in (i + q + 1)..(L + d + 1) /\ L + d + 1 - d = L + 1 /\ L + 1 \in 1..(L + 1)
      BY <2>1, <1>4, <1>5
    <3>2. new.kids[L + d + 1] = n.kids[L + 1]
      <4>1. i + (q + 1) = i + q + 1
        OBVIOUS
      <4> QED
        BY <4>1, <3>1, <1>8 DEF Moved
    <3>3. w[n.kids[L + 1]].solid
      BY <2>1, <1>26, <1>1, <1>2 DEF Tailed
    <3>4. u[new.kids[Len(new.kids)]].solid
      <4>1. u[n.kids[L + 1]] = w[n.kids[L + 1]]
        BY <3>1, <1>11
      <4>2. Len(new.kids) = L + d + 1
        BY <1>8
      <4> QED
        BY <4>1, <4>2, <3>2, <3>3
    <3> QED
      BY <3>4 DEF Tailed
  <2>2. CASE ~(i + c <= L + 1)
    <3>1. i - 1 + (q + 1) = L + d + 1 /\ q + 1 \in 1..(q + 1)
      BY <2>2, <1>4, <1>5, LastPlace
    <3>2. new.kids[i - 1 + (q + 1)] = ps[q + 1]
      BY <3>1, <1>8 DEF Moved
    <3>3. u[ps[q + 1]].solid
      BY <2>2, <1>5, <1>7, <1>26
    <3>4. u[new.kids[Len(new.kids)]].solid
      BY <3>1, <3>2, <3>3, <1>8
    <3> QED
      BY <3>4 DEF Tailed
  <2> QED
    BY <2>1, <2>2
<1>27. i + c <= Len(n.kids) <=> i + c <= L + 1
  BY <1>1, <1>2
<1> QED
  BY <1>10, <1>16, <1>17, <1>20, <1>21, <1>22, <1>23, <1>26, <1>27 DEF Replaced

-----------------------------------------------------------------------------
(* What is computed on the way down a tree is a function of the nodes: a   *)
(* node's children come before it.                                         *)

LEMMA KidsBelow ==
  ASSUME NEW f, NEW w, NEW loaded, TreesOK(f, w, loaded), NEW q \in Nodes(f), f[q].kind # "leaf"
  PROVE  /\ f[q].kind = "node" /\ NodeOK(f, w, f[q]) /\ DOMAIN f[q].kids = 1..Len(f[q].kids) /\ Len(f[q].kids) \in Nat
         /\ f[q].kids \in Seq(Nat) /\ 1 \in DOMAIN f[q].kids
         /\ \A i \in DOMAIN f[q].kids : /\ f[q].kids[i] \in Nodes(f) /\ f[q].kids[i] < q
                                        /\ \A m \in Nat : q <= m + 1 => f[q].kids[i] <= m
         /\ \A k \in Nat : UpperBound(f[q].keys, k) \in DOMAIN f[q].kids
<1>1. f \in Seq(Records) /\ Fits(f, w, loaded, f[q]) /\ Before(f[q], q)
  BY DEF TreesOK
<1>2. f[q].kind = "node" /\ f[q] \in NodeRecords /\ q \in Nat
  BY <1>1, NodesIs
<1>3. NodeOK(f, w, f[q])
  BY <1>1, <1>2, RecordKinds DEF Fits, RecordOK, LeafOK
<1>4. /\ f[q].keys \in Seq(Keys) /\ f[q].kids \in Seq(Nat) /\ Len(f[q].kids) = Len(f[q].keys) + 1
      /\ Ascends(f[q].keys) /\ Len(f[q].keys) \in Nat
      /\ \A i \in 1..Len(f[q].kids) : f[q].kids[i] \in Nodes(f)
  BY <1>3, RecordKinds DEF NodeOK
<1>5. DOMAIN f[q].kids = 1..Len(f[q].kids) /\ 1 \in 1..Len(f[q].kids)
  BY <1>4
<1>12. \A i \in 1..Len(f[q].kids) : f[q].kids[i] < q
  BY ONLY <1>1, <1>2 DEF Before
<1>13. \A i \in 1..Len(f[q].kids) : f[q].kids[i] \in Nat
  BY ONLY <1>4
<1>6. \A i \in 1..Len(f[q].kids) : f[q].kids[i] < q /\ f[q].kids[i] \in Nat
  BY ONLY <1>12, <1>13
<1>7. \A k \in Nat : UpperBound(f[q].keys, k) \in 1..Len(f[q].kids)
  BY <1>4, UpperIs
<1>8. \A i \in 1..Len(f[q].kids), m \in Nat : q <= m + 1 => f[q].kids[i] <= m
  BY <1>2, <1>6
<1>9. ASSUME NEW i \in DOMAIN f[q].kids
      PROVE  f[q].kids[i] \in Nodes(f) /\ f[q].kids[i] < q /\ \A m \in Nat : q <= m + 1 => f[q].kids[i] <= m
  <2>1. i \in 1..Len(f[q].kids)
    BY <1>5
  <2> QED
    BY <2>1, <1>4, <1>6, <1>8
<1>10. \A k \in Nat : UpperBound(f[q].keys, k) \in DOMAIN f[q].kids
  BY <1>5, <1>7
<1>11. Len(f[q].kids) \in Nat /\ 1 \in DOMAIN f[q].kids
  BY <1>4, <1>5
<1> QED
  BY <1>2, <1>3, <1>4, <1>5, <1>9, <1>10, <1>11

\* AddNode is what its recursion says, at each node of a file whose trees are in order.
LEMMA AddNodeIs ==
  ASSUME NEW f, NEW w, NEW loaded, TreesOK(f, w, loaded), NEW k \in Nat, NEW v,
         NEW p \in Nodes(f)
  PROVE  AddNode(f, p, k, v) =
    IF f[p].kind = "leaf" THEN AddToLeaf(f, f[p], k, v)
    ELSE AddToNode(f[p], UpperBound(f[p].keys, k), AddNode(f, f[p].kids[UpperBound(f[p].keys, k)], k, v))
<1> DEFINE B(g, q) ==
            IF f[q].kind = "leaf" THEN AddToLeaf(f, f[q], k, v)
            ELSE AddToNode(f[q], UpperBound(f[q].keys, k), g[f[q].kids[UpperBound(f[q].keys, k)]])
           D == Nodes(f) \cap (1..Len(f))
           R(m) == Nodes(f) \cap (1..m)
           S == {m \in 0..Len(f) : \E g : g = [q \in R(m) |-> B(g, q)]}
<1>0. Len(f) \in Nat /\ \A q \in Nodes(f) : q \in 1..Len(f)
  BY NodesIs DEF TreesOK
<1>1. 0 \in S
  <2> DEFINE g == [q \in R(0) |-> 0]
  <2>1. R(0) = {}
    OBVIOUS
  <2> HIDE DEF B
  <2>2. g = [q \in R(0) |-> B(g, q)]
    BY <2>1
  <2> HIDE DEF g, R
  <2>3. \E gg : gg = [q \in R(0) |-> B(gg, q)]
    BY <2>2
  <2> QED
    BY <2>3, <1>0
<1>2. ASSUME NEW m \in 0..Len(f), m < Len(f), m \in S PROVE m + 1 \in S
  <2>1. PICK g : g = [q \in R(m) |-> B(g, q)]
    BY <1>2
  <2> DEFINE h == [q \in R(m + 1) |-> IF q <= m THEN g[q] ELSE B(g, q)]
  <2>2. \A q \in Nodes(f) : q <= m => q \in R(m) /\ q \in R(m + 1)
    BY <1>0
  <2>3. ASSUME NEW q \in Nodes(f), q <= m PROVE h[q] = g[q]
    <3> HIDE DEF B, R
    <3> QED
      BY <2>2, <2>3
  <2>4. ASSUME NEW q \in R(m + 1) PROVE B(h, q) = B(g, q)
    <3>1. q \in Nodes(f) /\ q <= m + 1
      BY <1>0
    <3> HIDE DEF h, B, R
    <3>2. CASE f[q].kind = "leaf"
      BY <3>2 DEF B
    <3>3. CASE f[q].kind # "leaf"
      <4>1. f[q].kids[UpperBound(f[q].keys, k)] \in Nodes(f) /\ f[q].kids[UpperBound(f[q].keys, k)] <= m
        BY <3>1, <3>3, KidsBelow
      <4>2. h[f[q].kids[UpperBound(f[q].keys, k)]] = g[f[q].kids[UpperBound(f[q].keys, k)]]
        BY <4>1, <2>3
      <4> QED
        BY <4>2 DEF B
    <3> QED
      BY <3>2, <3>3
  <2>5. ASSUME NEW q \in R(m + 1) PROVE h[q] = B(h, q)
    <3>1. CASE q <= m
      <4>1. q \in Nodes(f) /\ q \in R(m)
        BY <3>1, <2>2
      <4> HIDE DEF h, B, R
      <4>2. g[q] = B(g, q)
        BY <4>1, <2>1
      <4> QED
        BY <4>1, <4>2, <3>1, <2>3, <2>4
    <3>2. CASE ~ (q <= m)
      <4> HIDE DEF B, R
      <4>1. h[q] = B(g, q)
        BY <3>2
      <4> HIDE DEF h
      <4> QED
        BY <4>1, <2>4
    <3> QED
      BY <3>1, <3>2
  <2>6. h = [q \in R(m + 1) |-> B(h, q)]
    <3> HIDE DEF B, R
    <3>1. h = [q \in R(m + 1) |-> h[q]]
      OBVIOUS
    <3> HIDE DEF h
    <3> QED
      BY <3>1, <2>5
  <2>7. m + 1 \in 0..Len(f)
    BY <1>0, <1>2
  <2> HIDE DEF h, B, R
  <2> QED
    BY <2>6, <2>7
<1> HIDE DEF S
<1>3. Len(f) \in S
  <2>1. \A i \in 0..Len(f) : i < Len(f) /\ i \in S => i + 1 \in S
    BY <1>2
  <2>2. \A i \in 0..Len(f) : i \in S
    BY <1>0, <1>1, <2>1, UpTo
  <2> QED
    BY <2>2, <1>0
<1>4. R(Len(f)) = Nodes(f)
  BY <1>0
<1> HIDE DEF R
<1>5. PICK g : g = [q \in Nodes(f) |-> B(g, q)]
  <2> HIDE DEF B
  <2>1. \E gg : gg = [q \in R(Len(f)) |-> B(gg, q)]
    BY <1>3 DEF S
  <2> QED
    BY <2>1, <1>4
<1> DEFINE c == CHOOSE gg : gg = [q \in Nodes(f) |-> B(gg, q)]
<1>6. c = [q \in Nodes(f) |-> B(c, q)]
  <2> HIDE DEF B
  <2> QED
    BY <1>5
<1>7. \A q : AddNode(f, q, k, v) = c[q]
  BY DEF AddNode
<1> HIDE DEF c
<1>8. c[p] = B(c, p)
  <2> HIDE DEF B
  <2> QED
    BY <1>6
<1> QED
  BY <1>7, <1>8

-----------------------------------------------------------------------------
(* Saving what came of a node.                                             *)

\* Halves may stand for a node of more keys.
LEMMA HalvesWiden ==
  ASSUME NEW f, NEW w, NEW loaded, NEW m, NEW m2, NEW hs, NEW seps, Halves(f, w, loaded, m, hs, seps),
         m2.h = m.h, m2.e = m.e, m.ks \subseteq m2.ks, m2.solid => m.solid
  PROVE  Halves(f, w, loaded, m2, hs, seps)
<1>1. seps \in Seq(m2.ks)
  <2>1. seps \in Seq(m.ks) /\ Len(seps) \in {0, 1}
    BY DEF Halves
  <2>2. \A i \in 1..Len(seps) : seps[i] \in m2.ks
    BY <2>1
  <2> QED
    BY <2>1, <2>2
<1> QED
  BY <1>1 DEF Halves

\* ns are the records of g at the places ps, with their summaries in u.
Stored(f, w, loaded, ns, ps, g, u) ==
  /\ TreesOK(g, u, loaded) /\ Extends(f, g) /\ Agrees(f, w, u) /\ g \in Seq(Records)
  /\ Len(g) = Len(f) + Len(ns)
  /\ ps \in Seq(Nat) /\ Len(ps) = Len(ns)
  /\ \A a \in 1..Len(ns) : /\ ps[a] \in Nodes(g) /\ ps[a] = Len(f) + a
                           /\ g[ps[a]] = ns[a] /\ u[ps[a]] = Summary(f, w, ns[a])

\* Halves that are saved have their summaries in the file.
LEMMA StoredIs ==
  ASSUME NEW f, NEW w, NEW loaded \in BOOLEAN, TreesOK(f, w, loaded), NEW ns \in Seq(Records),
         \A i \in 1..Len(ns) : ns[i].kind \in {"leaf", "node"} /\ Fits(f, w, loaded, ns[i])
  PROVE  Stored(f, w, loaded, ns, Pointers(f, ns), f \o ns, Grown(f, w, ns))
<1>1. f \in Seq(Records) /\ Len(f) \in Nat /\ Len(ns) \in Nat /\ DOMAIN ns = 1..Len(ns)
  BY DEF TreesOK
<1>2. /\ TreesOK(f \o ns, Grown(f, w, ns), loaded)
      /\ Extends(f, f \o ns) /\ Agrees(f, w, Grown(f, w, ns))
      /\ Len(f \o ns) = Len(f) + Len(ns)
      /\ \A i \in 1..Len(ns) :
           /\ Len(f) + i \in 1..Len(f \o ns) /\ (f \o ns)[Len(f) + i] = ns[i]
           /\ ns[i].kind \in {"leaf", "node"} =>
                /\ Len(f) + i \in Nodes(f \o ns)
                /\ Grown(f, w, ns)[Len(f) + i] = Summary(f, w, ns[i])
  BY SaveAll
<1>3. f \o ns \in Seq(Records)
  BY <1>1
<1>4. Pointers(f, ns) = [i \in 1..Len(ns) |-> Len(f) + i]
  BY <1>1 DEF Pointers
<1>5. Pointers(f, ns) \in Seq(Nat) /\ Len(Pointers(f, ns)) = Len(ns)
  BY <1>1, <1>4
<1>6. \A i \in 1..Len(ns) : Pointers(f, ns)[i] = Len(f) + i
  BY <1>4
<1> QED
  BY <1>2, <1>3, <1>5, <1>6 DEF Stored

\* A node has no key only where its tree was loaded.
LEMMA HalvesStored ==
  ASSUME NEW f, NEW w, NEW loaded \in BOOLEAN, TreesOK(f, w, loaded), NEW m, NEW hs, NEW seps,
         Halves(f, w, loaded, m, hs, seps),
         loaded \/ \A i \in 1..Len(hs) : hs[i].kind = "node" => Len(hs[i].keys) >= 1
  PROVE  Stored(f, w, loaded, hs, Pointers(f, hs), f \o hs, Grown(f, w, hs))
<1>1. /\ hs \in Seq(Records)
      /\ \A i \in 1..Len(hs) : RecordOK(f, w, hs[i]) /\ Len(hs[i].keys) < Order /\ (loaded \/ KidsFilled(f, hs[i]))
  BY DEF Halves
<1>2. ASSUME NEW i \in 1..Len(hs)
      PROVE  hs[i].kind \in {"leaf", "node"} /\ Fits(f, w, loaded, hs[i])
  <2>1. RecordOK(f, w, hs[i])
    BY <1>1
  <2>2. hs[i].kind \in {"leaf", "node"}
    BY <2>1, RecordKinds DEF RecordOK, LeafOK, NodeOK
  <2> QED
    BY <1>1, <2>2 DEF Fits, Dense
<1> QED
  BY <1>1, <1>2, StoredIs

\* Node n of f with c children from i on replaced by what the entries m went to.
ReplacedBy(f, w, g, u, n, i, c, m, hs, seps, new) ==
  /\ NodeOK(g, u, new) /\ new.kind = "node" /\ new \in Records
  /\ Len(new.keys) = Len(n.keys) - (c - 1) + Len(seps)
  /\ KidsFilled(f, n) /\ (\A a \in 1..Len(hs) : Len(hs[a].keys) >= MinKeys) => KidsFilled(g, new)
  /\ Summary(g, u, new).h = Summary(f, w, n).h
  /\ Summary(g, u, new).e = (UNION {w[n.kids[j]].e : j \in 1..(i - 1)}) \cup m.e
                              \cup (UNION {w[n.kids[j]].e : j \in (i + c)..Len(n.kids)})
  /\ Summary(g, u, new).ks \subseteq Summary(f, w, n).ks \cup m.ks
  /\ (IF i + c <= Len(n.kids) THEN Tailed(w, n) ELSE m.solid) => Tailed(u, new)

\* g0 is f with the nodes below hs, and g is that with hs.
Replacement(f, w, g0, u0, g, u, loaded, n, i, c, m, hs, seps, ps, new) ==
  /\ f \in Seq(Records) /\ g0 \in Seq(Records) /\ Extends(f, g0) /\ Agrees(f, w, u0)
  /\ NodeOK(f, w, n) /\ c \in {1, 2} /\ i \in Nat /\ i >= 1 /\ i + c <= Len(n.kids) + 1
  /\ m.ks \in SUBSET Keys /\ m.h = w[n.kids[1]].h /\ \A k \in m.ks : Inside(n, i, c, k)
  /\ Halves(g0, u0, loaded, m, hs, seps)
  /\ i + c <= Len(n.kids) => m.solid
  /\ Stored(g0, u0, loaded, hs, ps, g, u)
  /\ new = Node(Splice(n.keys, i, c - 1, seps), Splice(n.kids, i, c, ps))

\* The children that are replaced by halves of what they held leave a node in order.
LEMMA ReplacementIs ==
  ASSUME NEW f, NEW w, NEW g0, NEW u0, NEW g, NEW u, NEW loaded, NEW n, NEW i, NEW c, NEW m, NEW hs,
         NEW seps, NEW ps, NEW new,
         Replacement(f, w, g0, u0, g, u, loaded, n, i, c, m, hs, seps, ps, new)
  PROVE  ReplacedBy(f, w, g, u, n, i, c, m, hs, seps, new)
<1>1. /\ f \in Seq(Records) /\ g0 \in Seq(Records) /\ Extends(f, g0) /\ Agrees(f, w, u0)
      /\ NodeOK(f, w, n) /\ c \in {1, 2} /\ i \in Nat /\ i >= 1 /\ i + c <= Len(n.kids) + 1
      /\ m.ks \in SUBSET Keys /\ m.h = w[n.kids[1]].h /\ \A k \in m.ks : Inside(n, i, c, k)
      /\ Halves(g0, u0, loaded, m, hs, seps)
      /\ i + c <= Len(n.kids) => m.solid
      /\ Stored(g0, u0, loaded, hs, ps, g, u)
      /\ new = Node(Splice(n.keys, i, c - 1, seps), Splice(n.kids, i, c, ps))
  BY DEF Replacement
<1>2. /\ seps \in Seq(m.ks) /\ Len(seps) \in {0, 1} /\ Len(hs) = Len(seps) + 1
      /\ \A a \in 1..Len(hs) : Summary(g0, u0, hs[a]).h = m.h /\ Summary(g0, u0, hs[a]).ks \subseteq m.ks
      /\ UNION {Summary(g0, u0, hs[a]).e : a \in 1..Len(hs)} = m.e
      /\ m.solid => Summary(g0, u0, hs[Len(hs)]).solid
      /\ Len(seps) = 1 => /\ Summary(g0, u0, hs[1]).solid
                          /\ \A k \in Summary(g0, u0, hs[1]).ks : k < seps[1]
                          /\ \A k \in Summary(g0, u0, hs[2]).ks : seps[1] <= k
  BY <1>1 DEF Halves
<1>3. /\ TreesOK(g, u, loaded) /\ Extends(g0, g) /\ Agrees(g0, u0, u) /\ g \in Seq(Records)
      /\ ps \in Seq(Nat) /\ Len(ps) = Len(hs)
      /\ \A a \in 1..Len(hs) : ps[a] \in Nodes(g) /\ g[ps[a]] = hs[a] /\ u[ps[a]] = Summary(g0, u0, hs[a])
  BY <1>1 DEF Stored
<1>4. Extends(f, g) /\ Agrees(f, w, u)
  BY <1>1, <1>3, ExtendsOn
<1>5. \A p \in Nodes(g) : SummaryOK(u[p])
  BY <1>3 DEF TreesOK
<1>6. seps \in Seq(Keys)
  <2>1. \A a \in 1..Len(seps) : seps[a] \in Keys
    BY <1>1, <1>2
  <2> QED
    BY <2>1, <1>2
<1>7. ASSUME Len(seps) = 1
      PROVE  /\ \A j \in 1..(i - 1) : n.keys[j] < seps[1]
             /\ \A j \in (i + c - 1)..Len(n.keys) : seps[1] < n.keys[j]
             /\ \A k \in u[ps[1]].ks : k < seps[1]
             /\ \A k \in u[ps[2]].ks : seps[1] <= k
  <2>0. seps \in Seq(m.ks) /\ Len(seps) = 1 /\ Len(hs) = 2
    BY <1>2, <1>7
  <2>1. seps[1] \in m.ks /\ 1 \in 1..Len(hs) /\ 2 \in 1..Len(hs)
    BY <2>0
  <2>2. Inside(n, i, c, seps[1])
    BY <2>1, <1>1
  <2>9. SummaryOK(Summary(g0, u0, hs[1]))
    BY <2>1, <1>3, <1>5
  <2>3. PICK k \in Summary(g0, u0, hs[1]).ks : k < seps[1]
    BY <2>9, <1>2, <1>7 DEF SummaryOK
  <2>4. k \in m.ks /\ Inside(n, i, c, k)
    BY <2>1, <2>3, <1>1, <1>2
  <2>5. k \in Nat /\ seps[1] \in Nat
    <3>1. k \in Keys /\ seps[1] \in Keys
      BY <2>1, <2>4, <1>1
    <3> QED
      BY <3>1, MapAssumption DEF Keys
  <2>6. n.keys \in Seq(Keys) /\ Len(n.keys) \in Nat /\ i - 1 <= Len(n.keys)
    <3>1. RecordOK(f, w, n) /\ Len(n.kids) = Len(n.keys) + 1
      BY <1>1 DEF RecordOK, NodeOK
    <3>2. n.keys \in Seq(Keys) /\ Len(n.keys) \in Nat
      BY <3>1, RecordShape
    <3>3. c \in {1, 2} /\ i \in Nat /\ i + c <= Len(n.kids) + 1
      BY <1>1
    <3> QED
      BY <3>1, <3>2, <3>3
  <2>7. ASSUME NEW j \in 1..(i - 1) PROVE n.keys[j] < seps[1]
    <3>1. j \in 1..Len(n.keys)
      BY <2>6, <1>1
    <3>2. n.keys[j] \in Nat
      BY <3>1, <2>6, KeyRows
    <3>3. n.keys[j] <= k
      BY <2>4 DEF Inside
    <3> QED
      BY <3>2, <3>3, <2>3, <2>5
  <2>8. u[ps[1]] = Summary(g0, u0, hs[1]) /\ u[ps[2]] = Summary(g0, u0, hs[2])
    BY <2>1, <1>3
  <2> QED
    BY <2>2, <2>7, <2>8, <1>2, <1>7 DEF Inside
<1>8. Incoming(w, g, u, n, i, c, ps, seps)
  <2>1. ASSUME NEW a \in 1..Len(ps)
        PROVE  /\ ps[a] \in Nodes(g) /\ u[ps[a]].h = w[n.kids[1]].h
               /\ \A k \in u[ps[a]].ks : Inside(n, i, c, k)
               /\ a < Len(ps) \/ i + c <= Len(n.kids) => u[ps[a]].solid
    <3>1. a \in 1..Len(hs)
      BY <1>3
    <3>2. (a < Len(hs) => Len(seps) = 1 /\ a = 1) /\ (~(a < Len(hs)) => a = Len(hs))
      <4>1. Len(seps) \in {0, 1} /\ Len(hs) = Len(seps) + 1
        BY <1>2
      <4>2. CASE Len(seps) = 0
        <5>1. Len(hs) = 1
          BY <4>1, <4>2
        <5> QED
          BY <5>1, <3>1
      <4>3. CASE Len(seps) = 1
        <5>1. Len(hs) = 2
          BY <4>1, <4>3
        <5> QED
          BY <5>1, <4>3, <3>1
      <4> QED
        BY <4>1, <4>2, <4>3
    <3>3. a < Len(hs) => Summary(g0, u0, hs[a]).solid
      BY <3>2, <1>2
    <3>4. ~(a < Len(hs)) /\ i + c <= Len(n.kids) => Summary(g0, u0, hs[a]).solid
      BY <3>2, <1>1, <1>2
    <3> QED
      BY <3>1, <3>3, <3>4, <1>1, <1>2, <1>3
  <2> QED
    BY <2>1, <1>2, <1>3, <1>6, <1>7 DEF Incoming
<1>9. Replaced(f, w, g, u, n, i, c, ps, seps, new)
  <2>1. new = Node(Splice(n.keys, i, c - 1, seps), Splice(n.kids, i, c, ps))
    BY <1>1
  <2>2. f \in Seq(Records) /\ NodeOK(f, w, n) /\ c \in {1, 2} /\ i \in Nat /\ i >= 1 /\ i + c <= Len(n.kids) + 1
    BY <1>1
  <2> QED
    BY <2>1, <2>2, <1>3, <1>4, <1>5, <1>8, ReplaceIs
<1>10. (UNION {u[ps[a]].e : a \in 1..Len(ps)}) = m.e
  <2>1. {u[ps[a]].e : a \in 1..Len(ps)} = {Summary(g0, u0, hs[a]).e : a \in 1..Len(hs)}
    BY <1>3
  <2> QED
    BY <2>1, <1>2
<1>11. {seps[a] : a \in 1..Len(seps)} \subseteq m.ks /\ (UNION {u[ps[a]].ks : a \in 1..Len(ps)}) \subseteq m.ks
  <2>1. \A a \in 1..Len(seps) : seps[a] \in m.ks
    BY <1>2
  <2>2. \A a \in 1..Len(ps) : u[ps[a]].ks \subseteq m.ks
    BY <1>2, <1>3
  <2> QED
    BY <2>1, <2>2
<1>12. (\A a \in 1..Len(hs) : Len(hs[a].keys) >= MinKeys) => \A a \in 1..Len(ps) : Len(g[ps[a]].keys) >= MinKeys
  BY <1>3
<1> DEFINE l == UNION {w[n.kids[j]].e : j \in 1..(i - 1)}
           r == UNION {w[n.kids[j]].e : j \in (i + c)..Len(n.kids)}
           E == UNION {u[ps[a]].e : a \in 1..Len(ps)}
           K == UNION {u[ps[a]].ks : a \in 1..Len(ps)}
           T == {seps[a] : a \in 1..Len(seps)}
<1>13. /\ NodeOK(g, u, new) /\ new.kind = "node" /\ new \in Records
       /\ Len(new.keys) = Len(n.keys) - (c - 1) + Len(seps)
       /\ KidsFilled(f, n) /\ (\A a \in 1..Len(ps) : Len(g[ps[a]].keys) >= MinKeys) => KidsFilled(g, new)
       /\ Summary(g, u, new).h = Summary(f, w, n).h
       /\ Summary(g, u, new).e = l \cup E \cup r
       /\ Summary(g, u, new).ks \subseteq Summary(f, w, n).ks \cup T \cup K
       /\ (IF i + c <= Len(n.kids) THEN Tailed(w, n) ELSE u[ps[Len(ps)]].solid) => Tailed(u, new)
  BY <1>9 DEF Replaced
<1>14. E = m.e /\ T \subseteq m.ks /\ K \subseteq m.ks
  BY <1>10, <1>11
<1> HIDE DEF l, r, E, K, T
<1>15. /\ Summary(g, u, new).e = l \cup m.e \cup r
       /\ Summary(g, u, new).ks \subseteq Summary(f, w, n).ks \cup m.ks
  BY <1>13, <1>14
<1>16. /\ Summary(g, u, new).e = (UNION {w[n.kids[j]].e : j \in 1..(i - 1)}) \cup m.e
                              \cup (UNION {w[n.kids[j]].e : j \in (i + c)..Len(n.kids)})
  BY <1>15 DEF l, r
<1>17. m.solid => u[ps[Len(ps)]].solid
  <2>1. Len(ps) \in 1..Len(hs)
    BY <1>2, <1>3
  <2> QED
    BY <2>1, <1>2, <1>3
<1> QED
  BY <1>12, <1>13, <1>15, <1>16, <1>17 DEF ReplacedBy

-----------------------------------------------------------------------------
(* Insert.                                                                 *)

\* The summary m with k set to v.
With(m, k, v) == [h |-> m.h, e |-> {x \in m.e : x[1] # k} \cup {<<k, v>>}, ks |-> m.ks \cup {k},
                  solid |-> m.solid]

\* What an insert below p must give.
Added(f, w, loaded, p, k, v, c) ==
  /\ c.file \in Seq(Records) /\ Extends(f, c.file)
  /\ \E u : /\ TreesOK(c.file, u, loaded) /\ Agrees(f, w, u)
            /\ Halves(c.file, u, loaded, With(w[p], k, v), c.halves, c.seps)
  /\ c.updated \in BOOLEAN /\ (c.updated <=> \E x \in w[p].e : x[1] = k)
  /\ Len(c.seps) = 0 => Len(c.halves[1].keys) >= Len(f[p].keys)

ValueStored(f, w, loaded, v, g, ref) ==
  /\ g \in Seq(Records) /\ Extends(f, g)
  /\ \E u : TreesOK(g, u, loaded) /\ Agrees(f, w, u)
  /\ ref \in Refs /\ (ref[1] = "at" => ref[2] \in 1..Len(g) /\ g[ref[2]] \in ValueRecords)
  /\ ResolveValue(g, ref) = v

\* A stored value is read back, and no tree notices it.
LEMMA StoreValueIs ==
  ASSUME NEW f, NEW w, NEW loaded \in BOOLEAN, TreesOK(f, w, loaded), NEW v \in Value
  PROVE  ValueStored(f, w, loaded, v, StoreValue(f, v).file, StoreValue(f, v).ref)
<1>1. f \in Seq(Records) /\ Len(f) \in Nat
  BY DEF TreesOK
<1>2. CASE v \notin Large
  <2>1. StoreValue(f, v).file = f /\ StoreValue(f, v).ref = <<"here", v>>
    BY <1>2 DEF StoreValue
  <2>2. <<"here", v>> \in Refs
    BY DEF Refs
  <2>3. ResolveValue(f, <<"here", v>>) = v
    BY DEF ResolveValue
  <2>4. Extends(f, f) /\ Agrees(f, w, w)
    BY <1>1 DEF Extends, Agrees
  <2> QED
    BY <1>1, <2>1, <2>2, <2>3, <2>4 DEF ValueStored
<1>3. CASE v \in Large
  <2> DEFINE rec == [kind |-> "value", val |-> v]
             ns == <<rec>>
  <2>1. rec \in ValueRecords /\ rec \in Records /\ rec.kind = "value"
    BY DEF ValueRecords, Records
  <2>2. ns \in Seq(Records) /\ Len(ns) = 1 /\ ns[1] = rec
    BY <2>1
  <2>3. StoreValue(f, v).file = f \o ns /\ StoreValue(f, v).ref = <<"at", Len(f) + 1>>
    <3>1. StoreValue(f, v).file = Append(f, rec) /\ StoreValue(f, v).ref = <<"at", Len(f) + 1>>
      BY <1>3 DEF StoreValue
    <3>2. Append(f, rec) = f \o ns
      BY <1>1, <2>1, AppendIs
    <3> QED
      BY <3>1, <3>2
  <2> HIDE DEF ns
  <2>4. \A i \in 1..Len(ns) : ns[i].kind \notin {"leaf", "node"}
    BY <2>1, <2>2
  <2>5. /\ TreesOK(f \o ns, Grown(f, w, ns), loaded)
        /\ Extends(f, f \o ns) /\ Agrees(f, w, Grown(f, w, ns))
        /\ \A i \in 1..Len(ns) : Len(f) + i \in 1..Len(f \o ns) /\ (f \o ns)[Len(f) + i] = ns[i]
    <3>1. \A i \in 1..Len(ns) : ns[i].kind \in {"leaf", "node"} => Fits(f, w, loaded, ns[i])
      BY <2>4
    <3> QED
      BY <2>2, <3>1, SaveAll
  <2>6. Len(f) + 1 \in 1..Len(f \o ns) /\ (f \o ns)[Len(f) + 1] = rec
    <3>1. 1 \in 1..Len(ns)
      BY <2>2
    <3> QED
      BY <2>2, <2>5, <3>1
  <2>7. <<"at", Len(f) + 1>> \in Refs
    BY <1>1 DEF Refs
  <2>8. ResolveValue(f \o ns, <<"at", Len(f) + 1>>) = v
    BY <2>6 DEF ResolveValue
  <2>9. f \o ns \in Seq(Records)
    BY <1>1, <2>2
  <2> HIDE DEF rec
  <2> QED
    BY <2>1, <2>3, <2>5, <2>6, <2>7, <2>8, <2>9 DEF ValueStored
<1> QED
  BY <1>2, <1>3

LEMMA LeafPlace ==
  ASSUME NEW L \in Nat, NEW i \in 1..(L + 1), NEW o \in {0, 1}, i + o <= L + 1
  PROVE  /\ \A j \in 1..(L + 1 - o) : \/ j \in 1..(i - 1)
                                      \/ j = i
                                      \/ /\ j \in (i + 1)..(L + 1 - o) /\ j - (1 - o) \in (i + o)..L
                                         /\ j - (1 - o) \in 1..L
         /\ \A j \in 1..(i - 1) : j \in 1..L /\ j \in 1..(L + 1 - o) /\ j < i
         /\ i \in 1..(L + 1 - o)
         /\ \A j \in (i + o)..L : /\ j + (1 - o) \in (i + 1)..(L + 1 - o) /\ (j + (1 - o)) - (1 - o) = j
                                  /\ j \in 1..L /\ j >= i /\ j + (1 - o) \in 1..(L + 1 - o)
         /\ \A j \in 1..L : j \in 1..(i - 1) \/ (o = 1 /\ j = i) \/ j \in (i + o)..L
         /\ \A a \in 1..1 : i - 1 + a = i
         /\ L + (1 - o) = L + 1 - o /\ L + 1 - o \in Nat /\ L + 1 - o >= L /\ L + 1 - o <= L + 1
  OBVIOUS

LeafWith(g, n, k, ref, o, new) ==
  /\ LeafOK(g, new) /\ new.kind = "leaf" /\ Len(new.keys) = Len(n.keys) + 1 - o
  /\ LeafSummary(g, new).h = LeafSummary(g, n).h
  /\ LeafSummary(g, new).e = {x \in LeafSummary(g, n).e : x[1] # k} \cup {<<k, ResolveValue(g, ref)>>}
  /\ LeafSummary(g, new).ks = LeafSummary(g, n).ks \cup {k}
  /\ LeafSummary(g, n).solid => LeafSummary(g, new).solid

PutInLeaf(g, n, k, ref, o, i, new) ==
  /\ g \in Seq(Records) /\ LeafOK(g, n) /\ k \in Keys /\ ref \in Refs
  /\ ref[1] = "at" => ref[2] \in 1..Len(g) /\ g[ref[2]] \in ValueRecords
  /\ o = (IF k \in Range(n.keys) THEN 1 ELSE 0) /\ i = LowerBound(n.keys, k)
  /\ new = Leaf(Splice(n.keys, i, o, <<k>>), Splice(n.vals, i, o, <<ref>>))

\* A leaf with a key put at its place is in order and has the entries it should.
LEMMA LeafWithIs ==
  ASSUME NEW g, NEW n, NEW k, NEW ref, NEW o, NEW i, NEW new, PutInLeaf(g, n, k, ref, o, i, new)
  PROVE  LeafWith(g, n, k, ref, o, new)
<1>1. /\ n \in LeafRecords /\ n.kind = "leaf" /\ n.keys \in Seq(Keys) /\ n.vals \in Seq(Refs)
      /\ Len(n.vals) = Len(n.keys) /\ Ascends(n.keys) /\ Len(n.keys) \in Nat
      /\ \A j \in 1..Len(n.vals) : n.vals[j][1] = "at" =>
           n.vals[j][2] \in 1..Len(g) /\ g[n.vals[j][2]] \in ValueRecords
  BY RecordKinds DEF LeafOK, PutInLeaf
<1>2. PICK L \in Nat : L = Len(n.keys)
  BY <1>1
<1>3. k \in Nat /\ \A j \in 1..L : n.keys[j] \in Nat /\ n.keys[j] \in Keys
  BY <1>1, <1>2, KeyRows, MapAssumption DEF Keys, PutInLeaf
<1>4. i \in 1..(L + 1) /\ \A j \in 1..L : IF j < i THEN n.keys[j] < k ELSE k <= n.keys[j]
  BY <1>1, <1>2, <1>3, LowerIs DEF PutInLeaf
<1>5. o \in {0, 1} /\ (o = 1 => i \in 1..L /\ n.keys[i] = k) /\ (o = 0 => \A j \in 1..L : n.keys[j] # k)
  <2>1. Range(n.keys) = {n.keys[j] : j \in 1..L}
    BY <1>1, <1>2 DEF Range
  <2>2. ASSUME k \in Range(n.keys) PROVE i \in 1..L /\ n.keys[i] = k
    <3>1. PICK j \in 1..L : n.keys[j] = k
      BY <2>1, <2>2
    <3>2. ~ (j < i)
      BY <1>3, <1>4, <3>1
    <3>3. i \in 1..L
      BY <1>4, <3>2
    <3>4. k <= n.keys[i] /\ (i < j => n.keys[i] < n.keys[j])
      BY <1>1, <1>2, <1>4, <3>3 DEF Ascends
    <3> QED
      BY <1>3, <3>1, <3>2, <3>3, <3>4
  <2>3. o \in {0, 1} /\ (o = 1 => k \in Range(n.keys)) /\ (o = 0 => k \notin Range(n.keys))
    BY DEF PutInLeaf
  <2> QED
    BY <2>1, <2>2, <2>3
<1>6. PICK M \in Nat : M = L + 1 - o
  <2>1. L + 1 - o \in Nat
    BY <1>5
  <2> QED
    BY <2>1
<1>7. i + o <= L + 1
  BY <1>4, <1>5
<1>8. /\ \A j \in 1..M : \/ j \in 1..(i - 1)
                         \/ j = i
                         \/ j \in (i + 1)..M /\ j - (1 - o) \in (i + o)..L /\ j - (1 - o) \in 1..L
      /\ \A j \in 1..(i - 1) : j \in 1..L /\ j \in 1..M /\ j < i
      /\ i \in 1..M
      /\ \A j \in (i + o)..L : /\ j + (1 - o) \in (i + 1)..M /\ (j + (1 - o)) - (1 - o) = j
                               /\ j \in 1..L /\ j >= i /\ j + (1 - o) \in 1..M
      /\ \A j \in 1..L : j \in 1..(i - 1) \/ (o = 1 /\ j = i) \/ j \in (i + o)..L
      /\ L + (1 - o) = M /\ M >= L /\ M <= L + 1
  BY <1>4, <1>5, <1>6, <1>7, LeafPlace
<1>9. /\ new.keys \in Seq(Keys) /\ Len(new.keys) = M
      /\ \A j \in 1..(i - 1) : new.keys[j] = n.keys[j]
      /\ new.keys[i] = k
      /\ \A j \in (i + 1)..M : new.keys[j] = n.keys[j - (1 - o)]
  <2>1. <<k>> \in Seq(Keys) /\ Len(<<k>>) = 1 /\ <<k>>[1] = k
    BY DEF PutInLeaf
  <2>2. new.keys = Splice(n.keys, i, o, <<k>>)
    BY DEF Leaf, PutInLeaf
  <2>0. PICK d \in Int : d = 1 - o
    BY <1>5
  <2>3. Spliced(Keys, n.keys, <<k>>, i, o, d, new.keys)
    BY <2>0, <2>1, <2>2, <1>1, <1>2, <1>4, <1>5, <1>7 DEF Spliced
  <2>6. new.keys \in Seq(Keys) /\ Len(new.keys) = Len(n.keys) + d
        /\ Moved(n.keys, new.keys, <<k>>, i, Len(<<k>>), Len(n.keys) + d, d)
    BY <2>3, MovedIs
  <2>4. new.keys \in Seq(Keys) /\ Len(new.keys) = L + (1 - o) /\ Moved(n.keys, new.keys, <<k>>, i, 1, L + (1 - o), 1 - o)
    BY <2>0, <2>1, <2>6, <1>1, <1>2
  <2>5. 1 \in 1..1 /\ i - 1 + 1 = i
    BY <1>4
  <2> QED
    BY <2>1, <2>4, <2>5, <1>8 DEF Moved
<1>10. /\ new.vals \in Seq(Refs) /\ Len(new.vals) = M
       /\ \A j \in 1..(i - 1) : new.vals[j] = n.vals[j]
       /\ new.vals[i] = ref
       /\ \A j \in (i + 1)..M : new.vals[j] = n.vals[j - (1 - o)]
  <2>1. <<ref>> \in Seq(Refs) /\ Len(<<ref>>) = 1 /\ <<ref>>[1] = ref
    BY DEF PutInLeaf
  <2>2. new.vals = Splice(n.vals, i, o, <<ref>>)
    BY DEF Leaf, PutInLeaf
  <2>0. PICK d \in Int : d = 1 - o
    BY <1>5
  <2>3. Spliced(Refs, n.vals, <<ref>>, i, o, d, new.vals)
    BY <2>0, <2>1, <2>2, <1>1, <1>2, <1>4, <1>5, <1>7 DEF Spliced
  <2>6. new.vals \in Seq(Refs) /\ Len(new.vals) = Len(n.vals) + d
        /\ Moved(n.vals, new.vals, <<ref>>, i, Len(<<ref>>), Len(n.vals) + d, d)
    BY <2>3, MovedIs
  <2>4. new.vals \in Seq(Refs) /\ Len(new.vals) = L + (1 - o) /\ Moved(n.vals, new.vals, <<ref>>, i, 1, L + (1 - o), 1 - o)
    BY <2>0, <2>1, <2>6, <1>1, <1>2
  <2>5. 1 \in 1..1 /\ i - 1 + 1 = i
    BY <1>4
  <2> QED
    BY <2>1, <2>4, <2>5, <1>8 DEF Moved
<1>11. new \in LeafRecords /\ new.kind = "leaf"
  <2>1. new.kind = "leaf" /\ new = [kind |-> "leaf", keys |-> new.keys, vals |-> new.vals]
    BY DEF Leaf, PutInLeaf
  <2> QED
    BY <2>1, <1>9, <1>10 DEF LeafRecords
<1>12. \A j \in 1..M : new.vals[j][1] = "at" => new.vals[j][2] \in 1..Len(g) /\ g[new.vals[j][2]] \in ValueRecords
  <2> DEFINE Z == {x \in Refs : x[1] = "at" => x[2] \in 1..Len(g) /\ g[x[2]] \in ValueRecords}
  <2>1. ref \in Z
    BY DEF PutInLeaf
  <2>2. \A j \in 1..L : n.vals[j] \in Z
    BY <1>1, <1>2
  <2>3. \A j \in 1..M : new.vals[j] \in Z
    <3> HIDE DEF Z
    <3> QED
      BY <2>1, <2>2, <1>8, <1>10
  <2> QED
    BY <2>3
<1>13. ASSUME NEW a \in 1..M, NEW b \in 1..M, a < b PROVE new.keys[a] < new.keys[b]
  <2>1. \A x, y \in 1..L : x < y => n.keys[x] < n.keys[y]
    BY <1>1, <1>2 DEF Ascends
  <2>2. CASE a \in 1..(i - 1) /\ b \in 1..(i - 1)
    BY <2>1, <2>2, <1>8, <1>9, <1>13
  <2>3. CASE a \in 1..(i - 1) /\ b = i
    BY <2>3, <1>4, <1>8, <1>9
  <2>4. CASE a \in 1..(i - 1) /\ b \in (i + 1)..M /\ b - (1 - o) \in (i + o)..L
    <3>1. a < b - (1 - o) /\ b - (1 - o) \in 1..L /\ a \in 1..L
      BY <2>4, <1>5, <1>8
    <3> QED
      BY <3>1, <2>1, <2>4, <1>9
  <2>5. CASE a = i /\ b \in (i + 1)..M /\ b - (1 - o) \in (i + o)..L
    <3> DEFINE c == b - (1 - o)
    <3>1. c \in 1..L /\ c >= i /\ c \in (i + o)..L
      BY <2>5, <1>8
    <3> HIDE DEF c
    <3>2. k <= n.keys[c]
      BY <3>1, <1>4
    <3>3. n.keys[c] # k
      <4>1. CASE o = 0
        BY <4>1, <3>1, <1>5
      <4>2. CASE o = 1
        <5>1. i \in 1..L /\ i < c /\ n.keys[i] = k
          BY <4>2, <3>1, <1>5
        <5> QED
          BY <5>1, <2>1, <3>1, <1>3
      <4> QED
        BY <4>1, <4>2, <1>5
    <3>4. k < n.keys[c]
      BY <3>1, <3>2, <3>3, <1>3
    <3> QED
      BY <3>4, <2>5, <1>9 DEF c
  <2>6. CASE a \in (i + 1)..M /\ b \in (i + 1)..M /\ b - (1 - o) \in 1..L /\ a - (1 - o) \in 1..L
    <3>1. a - (1 - o) < b - (1 - o)
      BY <2>6, <1>5, <1>13
    <3> QED
      BY <3>1, <2>1, <2>6, <1>9
  <2>7. ~ (b \in 1..(i - 1) /\ a = i) /\ ~ (b = i /\ a = i)
        /\ ~ (b \in 1..(i - 1) /\ a \in (i + 1)..M) /\ ~ (b = i /\ a \in (i + 1)..M)
    BY <1>4, <1>13
  <2> QED
    BY <2>2, <2>3, <2>4, <2>5, <2>6, <2>7, <1>8
<1>14. LeafOK(g, new)
  <2>1. Ascends(new.keys)
    BY <1>9, <1>13 DEF Ascends
  <2> QED
    BY <2>1, <1>9, <1>10, <1>11, <1>12 DEF LeafOK
<1> DEFINE N(j) == <<new.keys[j], ResolveValue(g, new.vals[j])>>
           O(j) == <<n.keys[j], ResolveValue(g, n.vals[j])>>
           v == ResolveValue(g, ref)
<1>15. {N(j) : j \in 1..M} = {x \in {O(j) : j \in 1..L} : x[1] # k} \cup {<<k, v>>}
  <2>1. \A j \in 1..(i - 1) : N(j) = O(j) /\ O(j)[1] # k /\ j \in 1..L /\ j \in 1..M
    BY <1>3, <1>4, <1>8, <1>9, <1>10
  <2>2. N(i) = <<k, v>> /\ i \in 1..M
    BY <1>8, <1>9, <1>10
  <2>3. ASSUME NEW j \in (i + 1)..M PROVE N(j) = O(j - (1 - o)) /\ N(j)[1] # k
    <3>1. j \in 1..M /\ i < j
      BY <1>4
    <3>2. new.keys[i] < new.keys[j]
      BY <3>1, <1>8, <1>13
    <3>3. new.keys[j] \in Nat
      BY <3>1, <1>9, KeyRows
    <3> QED
      BY <3>2, <3>3, <1>3, <1>9, <1>10
  <2> HIDE DEF N, O
  <2>4. ASSUME NEW j \in (i + o)..L PROVE j + (1 - o) \in 1..M /\ N(j + (1 - o)) = O(j)
    BY <2>3, <1>8
  <2>5. o = 1 => O(i)[1] = k
    BY <1>5 DEF O
  <2>6. ASSUME NEW j \in 1..M PROVE N(j) = <<k, v>> \/ (N(j)[1] # k /\ \E l \in 1..L : N(j) = O(l))
    BY <2>1, <2>2, <2>3, <1>8
  <2>7. ASSUME NEW j \in 1..L, O(j)[1] # k PROVE \E l \in 1..M : N(l) = O(j)
    <3>1. CASE j \in 1..(i - 1)
      BY <3>1, <2>1
    <3>2. CASE j \in (i + o)..L
      BY <3>2, <2>4
    <3> QED
      BY <3>1, <3>2, <2>5, <2>7, <1>8
  <2> HIDE DEF v
  <2>8. ASSUME NEW x \in {N(j) : j \in 1..M} PROVE x \in {y \in {O(j) : j \in 1..L} : y[1] # k} \cup {<<k, v>>}
    <3>1. PICK j \in 1..M : x = N(j)
      BY <2>8
    <3> QED
      BY <3>1, <2>6
  <2>9. ASSUME NEW x \in {y \in {O(j) : j \in 1..L} : y[1] # k} \cup {<<k, v>>} PROVE x \in {N(j) : j \in 1..M}
    <3>1. CASE x = <<k, v>>
      BY <3>1, <2>2
    <3>2. CASE x \in {y \in {O(j) : j \in 1..L} : y[1] # k}
      <4>1. PICK j \in 1..L : x = O(j) /\ x[1] # k
        BY <3>2
      <4> QED
        BY <4>1, <2>7
    <3> QED
      BY <3>1, <3>2, <2>9
  <2> QED
    BY <2>8, <2>9
<1>16. {new.keys[j] : j \in 1..M} = {n.keys[j] : j \in 1..L} \cup {k}
  <2>1. ASSUME NEW j \in 1..M PROVE new.keys[j] \in {n.keys[l] : l \in 1..L} \cup {k}
    BY <1>8, <1>9
  <2>2. ASSUME NEW j \in 1..L PROVE n.keys[j] \in {new.keys[l] : l \in 1..M}
    <3>1. CASE j \in 1..(i - 1)
      BY <3>1, <1>8, <1>9
    <3>2. CASE o = 1 /\ j = i
      BY <3>2, <1>5, <1>8, <1>9
    <3>3. CASE j \in (i + o)..L
      <4>1. j + (1 - o) \in 1..M /\ new.keys[j + (1 - o)] = n.keys[j]
        BY <3>3, <1>8, <1>9
      <4> QED
        BY <4>1
    <3> QED
      BY <3>1, <3>2, <3>3, <1>8
  <2>3. k \in {new.keys[l] : l \in 1..M}
    BY <1>8, <1>9
  <2> QED
    BY <2>1, <2>2, <2>3
<1> DEFINE EN == {N(j) : j \in 1..M}
           EO == {O(j) : j \in 1..L}
           KN == {new.keys[j] : j \in 1..M}
           KO == {n.keys[j] : j \in 1..L}
           mn == LeafSummary(g, new)
           mo == LeafSummary(g, n)
<1>17. EN = {x \in EO : x[1] # k} \cup {<<k, v>>} /\ KN = KO \cup {k}
  BY <1>15, <1>16
<1>18. mn.h = 0 /\ mn.e = EN /\ mn.ks = KN /\ mn.solid = (M >= MinKeys)
  BY <1>9 DEF LeafSummary
<1>19. mo.h = 0 /\ mo.e = EO /\ mo.ks = KO /\ mo.solid = (L >= MinKeys)
  BY <1>2 DEF LeafSummary
<1>20. L >= MinKeys => M >= MinKeys
  BY <1>8, MinKeysIs
<1>21. Len(new.keys) = Len(n.keys) + 1 - o
  BY <1>2, <1>6, <1>9
<1> HIDE DEF EN, EO, KN, KO, mn, mo, N, O
<1>22. mn.h = mo.h /\ mn.e = {x \in mo.e : x[1] # k} \cup {<<k, v>>} /\ mn.ks = mo.ks \cup {k} /\ (mo.solid => mn.solid)
  BY <1>17, <1>18, <1>19, <1>20
<1> QED
  BY <1>11, <1>14, <1>21, <1>22 DEF LeafWith, mn, mo

\* An insert at a leaf gives one or two leaves with the entries they should hold.
LEMMA AddToLeafIs ==
  ASSUME NEW f, NEW w, NEW loaded \in BOOLEAN, TreesOK(f, w, loaded), NEW p \in Nodes(f), f[p].kind = "leaf",
         NEW k \in Keys, NEW v \in Value
  PROVE  Added(f, w, loaded, p, k, v, AddToLeaf(f, f[p], k, v))
<1> DEFINE n == f[p]
           st == StoreValue(f, v)
           o == IF k \in Range(n.keys) THEN 1 ELSE 0
           i == LowerBound(n.keys, k)
           new == Leaf(Splice(n.keys, i, o, <<k>>), Splice(n.vals, i, o, <<st.ref>>))
           c == AddToLeaf(f, n, k, v)
<1>1. /\ f \in Seq(Records) /\ w[p] = Summary(f, w, n) /\ RecordOK(f, w, n) /\ Len(n.keys) < Order
  BY DEF TreesOK, Fits
<1>2. ValueStored(f, w, loaded, v, st.file, st.ref)
  BY StoreValueIs
<1>3. c = [file |-> st.file, halves |-> Fit(new).halves, seps |-> Fit(new).seps, updated |-> o = 1]
  BY DEF AddToLeaf
<1>4. n.kind = "leaf" /\ LeafOK(f, n) /\ w[p] = LeafSummary(f, n)
  BY <1>1, RecordKinds DEF RecordOK, NodeOK, Summary
<1> HIDE DEF n, st
<1>5. PICK g : g = st.file
  OBVIOUS
<1>6. /\ g \in Seq(Records) /\ Extends(f, g) /\ st.ref \in Refs
      /\ (st.ref[1] = "at" => st.ref[2] \in 1..Len(g) /\ g[st.ref[2]] \in ValueRecords)
      /\ ResolveValue(g, st.ref) = v
  BY <1>2, <1>5 DEF ValueStored
<1>7. PICK u : TreesOK(g, u, loaded) /\ Agrees(f, w, u)
  BY <1>2, <1>5 DEF ValueStored
<1>8. RecordOK(g, u, n) /\ Summary(g, u, n) = Summary(f, w, n)
  BY <1>1, <1>6, <1>7, RecordGrows
<1>9. LeafOK(g, n) /\ LeafSummary(g, n) = w[p]
  BY <1>1, <1>4, <1>8, RecordKinds DEF RecordOK, NodeOK, Summary
<1>10. LeafWith(g, n, k, st.ref, o, new)
  <2>1. PutInLeaf(g, n, k, st.ref, o, i, new)
    BY <1>6, <1>9 DEF PutInLeaf
  <2> HIDE DEF o, i, new
  <2> QED
    BY <2>1, LeafWithIs
<1>11. o \in {0, 1} /\ (o = 1 <=> \E x \in w[p].e : x[1] = k)
  <2>1. n.keys \in Seq(Keys) /\ DOMAIN n.keys = 1..Len(n.keys)
    BY <1>4, RecordKinds DEF LeafOK
  <2>2. k \in Range(n.keys) <=> \E j \in 1..Len(n.keys) : n.keys[j] = k
    BY <2>1 DEF Range
  <2>3. w[p].e = {<<n.keys[j], ResolveValue(f, n.vals[j])>> : j \in 1..Len(n.keys)}
    BY <1>4 DEF LeafSummary
  <2>4. ASSUME NEW j \in 1..Len(n.keys), n.keys[j] = k PROVE \E x \in w[p].e : x[1] = k
    <3>1. <<n.keys[j], ResolveValue(f, n.vals[j])>> \in w[p].e
      BY <2>3
    <3> QED
      BY <3>1, <2>4
  <2>5. ASSUME NEW x \in w[p].e, x[1] = k PROVE \E j \in 1..Len(n.keys) : n.keys[j] = k
    BY <2>3, <2>5
  <2> QED
    BY <2>2, <2>4, <2>5
<1> HIDE DEF new, o, i
<1>12. /\ LeafOK(g, new) /\ new.kind = "leaf" /\ Len(new.keys) = Len(n.keys) + 1 - o
       /\ LeafSummary(g, new).h = w[p].h /\ LeafSummary(g, new).e = {x \in w[p].e : x[1] # k} \cup {<<k, v>>}
       /\ LeafSummary(g, new).ks = w[p].ks \cup {k} /\ (w[p].solid => LeafSummary(g, new).solid)
  BY <1>6, <1>9, <1>10 DEF LeafWith
<1>13. Len(n.keys) \in Nat /\ Len(new.keys) >= Len(n.keys) /\ Len(new.keys) <= 2 * Order - 2 /\ Len(new.keys) \in Nat
  <2>1. Len(n.keys) \in Nat
    BY <1>4, RecordKinds DEF LeafOK
  <2> QED
    BY <2>1, <1>1, <1>11, <1>12, OrderAssumption DEF n
<1>14. RecordOK(g, u, new) /\ Summary(g, u, new) = LeafSummary(g, new) /\ KidsFilled(g, new)
  BY <1>12 DEF RecordOK, Summary, KidsFilled
<1>15. \A q \in Nodes(g) : SummaryOK(u[q])
  BY <1>7 DEF TreesOK
<1>16. /\ Halves(g, u, loaded, With(w[p], k, v), Fit(new).halves, Fit(new).seps)
       /\ Len(new.keys) < Order => Fit(new).halves = <<new>> /\ Fit(new).seps = <<>>
       /\ Len(new.keys) >= Order => Len(Fit(new).seps) = 1
  <2>1. /\ Halves(g, u, loaded, Summary(g, u, new), Fit(new).halves, Fit(new).seps)
        /\ Len(new.keys) < Order => Fit(new).halves = <<new>> /\ Fit(new).seps = <<>>
        /\ Len(new.keys) >= Order => Len(Fit(new).seps) = 1
    BY <1>6, <1>13, <1>14, <1>15, FitIs
  <2> DEFINE m == Summary(g, u, new)
             m2 == With(w[p], k, v)
  <2>2. m2.h = m.h /\ m2.e = m.e /\ m.ks \subseteq m2.ks /\ (m2.solid => m.solid)
    BY <1>12, <1>14 DEF With
  <2> HIDE DEF m, m2
  <2>3. Halves(g, u, loaded, m, Fit(new).halves, Fit(new).seps)
    BY <2>1 DEF m
  <2>4. Halves(g, u, loaded, m2, Fit(new).halves, Fit(new).seps)
    BY <2>2, <2>3, HalvesWiden
  <2> QED
    BY <2>1, <2>4 DEF m2
<1>17. Len(c.seps) = 0 => Len(c.halves[1].keys) >= Len(f[p].keys)
  <2>1. ASSUME Len(Fit(new).seps) = 0 PROVE Len(Fit(new).halves[1].keys) >= Len(n.keys)
    <3>1. Len(new.keys) < Order
      BY <1>13, <1>16, <2>1, OrderAssumption
    <3>2. Fit(new).halves[1] = new
      BY <3>1, <1>16
    <3> QED
      BY <3>2, <1>13
  <2>2. c.seps = Fit(new).seps /\ c.halves = Fit(new).halves
    BY <1>3
  <2> QED
    BY <2>1, <2>2 DEF n
<1>18. c.file = g /\ c.halves = Fit(new).halves /\ c.seps = Fit(new).seps /\ c.updated = (o = 1)
  BY <1>3, <1>5
<1> HIDE DEF c
<1>19. Added(f, w, loaded, p, k, v, c)
  <2>1. c.updated \in BOOLEAN /\ (c.updated <=> \E x \in w[p].e : x[1] = k)
    BY <1>11, <1>18
  <2>2. \E u1 : TreesOK(c.file, u1, loaded) /\ Agrees(f, w, u1)
                /\ Halves(c.file, u1, loaded, With(w[p], k, v), c.halves, c.seps)
    BY <1>7, <1>16, <1>18
  <2> QED
    BY <2>1, <2>2, <1>6, <1>17, <1>18 DEF Added
<1> QED
  BY <1>19 DEF c, n

LEMMA HeightIs ==
  ASSUME NEW f \in Seq(Records), NEW w, NEW n, RecordOK(f, w, n), \A q \in Nodes(f) : SummaryOK(w[q])
  PROVE  /\ n.kind \in {"leaf", "node"}
         /\ n.kind = "leaf" => Summary(f, w, n).h = 0
         /\ n.kind = "node" => Summary(f, w, n).h # 0
<1>1. CASE n.kind = "leaf"
  BY <1>1 DEF Summary, LeafSummary
<1>2. CASE n.kind # "leaf"
  <2>1. NodeOK(f, w, n) /\ n.kind = "node"
    BY <1>2, RecordKinds DEF RecordOK, LeafOK, NodeOK
  <2>2. Len(n.kids) = Len(n.keys) + 1 /\ Len(n.keys) \in Nat
    BY <2>1, RecordKinds DEF NodeOK
  <2>3. 1 \in 1..Len(n.kids)
    BY <2>2
  <2>4. n.kids[1] \in Nodes(f)
    BY <2>1, <2>3 DEF NodeOK
  <2>5. w[n.kids[1]].h \in Nat
    BY <2>4 DEF SummaryOK, Summaries
  <2>6. Summary(f, w, n).h = w[n.kids[1]].h + 1
    BY <2>1 DEF Summary, NodeSummary
  <2> QED
    BY <2>1, <2>5, <2>6
<1> QED
  BY <1>1, <1>2

\* A key's child is the one its entries are in.
LEMMA ChildOfKey ==
  ASSUME NEW f \in Seq(Records), NEW w, NEW n, NodeOK(f, w, n), \A q \in Nodes(f) : SummaryOK(w[q]),
         NEW k \in Keys, NEW i, i = UpperBound(n.keys, k)
  PROVE  /\ i \in 1..Len(n.kids) /\ Inside(n, i, 1, k)
         /\ \A kk \in w[n.kids[i]].ks : Inside(n, i, 1, kk)
         /\ \A j \in 1..Len(n.kids) : j # i => \A x \in w[n.kids[j]].e : x[1] # k
<1>1. /\ n.keys \in Seq(Keys) /\ Ascends(n.keys) /\ Len(n.kids) = Len(n.keys) + 1 /\ Len(n.keys) \in Nat
      /\ \A j \in 1..Len(n.kids) : n.kids[j] \in Nodes(f)
      /\ \A j \in 1..Len(n.kids), l \in 1..Len(n.keys) : \A kk \in w[n.kids[j]].ks :
           IF l < j THEN n.keys[l] <= kk ELSE kk < n.keys[l]
  BY RecordKinds DEF NodeOK
<1>2. k \in Nat
  BY MapAssumption DEF Keys
<1>3. /\ i \in 1..(Len(n.keys) + 1)
      /\ \A j \in 1..Len(n.keys) : IF j < i THEN n.keys[j] <= k ELSE k < n.keys[j]
  BY <1>1, <1>2, UpperIs
<1>4. PICK L \in Nat : L = Len(n.keys)
  BY <1>1
<1>5. /\ \A j \in 1..(i - 1) : j \in 1..L /\ j < i
      /\ \A j \in (i + 1 - 1)..L : j \in 1..L /\ ~ (j < i)
  BY <1>3, <1>4
<1>6. Inside(n, i, 1, k)
  BY <1>3, <1>4, <1>5 DEF Inside
<1>7. ASSUME NEW kk \in w[n.kids[i]].ks PROVE Inside(n, i, 1, kk)
  <2>1. \A l \in 1..L : IF l < i THEN n.keys[l] <= kk ELSE kk < n.keys[l]
    BY <1>1, <1>3, <1>4
  <2> QED
    BY <2>1, <1>4, <1>5 DEF Inside
<1>8. ASSUME NEW j \in 1..Len(n.kids), j # i, NEW x \in w[n.kids[j]].e PROVE x[1] # k
  <2>1. x[1] \in w[n.kids[j]].ks /\ w[n.kids[j]].ks \in SUBSET Keys
    BY <1>1 DEF SummaryOK, Summaries
  <2>2. x[1] \in Nat
    BY <2>1, MapAssumption DEF Keys
  <2>3. CASE j < i
    <3>1. j \in 1..L /\ ~ (j < j)
      BY <2>3, <1>3, <1>4
    <3>2. x[1] < n.keys[j] /\ n.keys[j] <= k
      BY <3>1, <2>1, <2>3, <1>1, <1>3, <1>4
    <3>3. n.keys[j] \in Nat
      BY <3>1, <1>1, <1>4, KeyRows
    <3> QED
      BY <3>2, <3>3, <2>2, <1>2
  <2>4. CASE ~ (j < i)
    <3>1. i \in 1..L /\ i < j
      BY <2>4, <1>1, <1>3, <1>4, <1>8
    <3>2. n.keys[i] <= x[1] /\ k < n.keys[i]
      BY <3>1, <2>1, <1>1, <1>3, <1>4
    <3>3. n.keys[i] \in Nat
      BY <3>1, <1>1, <1>4, KeyRows
    <3> QED
      BY <3>2, <3>3, <2>2, <1>2
  <2> QED
    BY <2>3, <2>4
<1> QED
  BY <1>1, <1>3, <1>6, <1>7, <1>8

ChildEdited(w, n, i, k, T) ==
  (UNION {w[n.kids[j]].e : j \in 1..(i - 1)}) \cup ({x \in w[n.kids[i]].e : x[1] # k} \cup T)
      \cup (UNION {w[n.kids[j]].e : j \in (i + 1)..Len(n.kids)})
    = {x \in NodeSummary(w, n).e : x[1] # k} \cup T

\* Only the child on the way to k has entries under k.
LEMMA ChildEditedIs ==
  ASSUME NEW w, NEW n, Len(n.kids) \in Nat, NEW k, NEW i \in 1..Len(n.kids), NEW T,
         \A j \in 1..Len(n.kids) : j # i => \A x \in w[n.kids[j]].e : x[1] # k
  PROVE  ChildEdited(w, n, i, k, T)
<1> DEFINE E(j) == w[n.kids[j]].e
           l == UNION {E(j) : j \in 1..(i - 1)}
           m == {x \in E(i) : x[1] # k} \cup T
           r == UNION {E(j) : j \in (i + 1)..Len(n.kids)}
           a == UNION {E(j) : j \in 1..Len(n.kids)}
<1>0. PICK K \in Nat : K = Len(n.kids)
  OBVIOUS
<1>1. /\ \A j \in 1..(i - 1) : j \in 1..K /\ j # i
      /\ \A j \in (i + 1)..K : j \in 1..K /\ j # i
      /\ \A j \in 1..K : j \in 1..(i - 1) \/ j = i \/ j \in (i + 1)..K
      /\ i \in 1..K
  BY <1>0
<1>2. \A j \in 1..K : j # i => \A x \in E(j) : x[1] # k
  BY <1>0
<1>3. l = UNION {E(j) : j \in 1..(i - 1)} /\ r = UNION {E(j) : j \in (i + 1)..K} /\ a = UNION {E(j) : j \in 1..K}
      /\ m = {x \in E(i) : x[1] # k} \cup T
  BY <1>0
<1> HIDE DEF E, l, m, r, a
<1>4. ASSUME NEW x \in l \cup m \cup r PROVE x \in {y \in a : y[1] # k} \cup T
  <2>1. CASE x \in l
    <3>1. PICK j \in 1..(i - 1) : x \in E(j)
      BY <2>1, <1>3
    <3> QED
      BY <3>1, <1>1, <1>2, <1>3
  <2>2. CASE x \in m
    BY <2>2, <1>1, <1>3
  <2>3. CASE x \in r
    <3>1. PICK j \in (i + 1)..K : x \in E(j)
      BY <2>3, <1>3
    <3> QED
      BY <3>1, <1>1, <1>2, <1>3
  <2> QED
    BY <2>1, <2>2, <2>3, <1>4
<1>5. ASSUME NEW x \in {y \in a : y[1] # k} \cup T PROVE x \in l \cup m \cup r
  <2>1. CASE x \in T
    BY <2>1, <1>3
  <2>2. CASE x \in {y \in a : y[1] # k}
    <3>1. PICK j \in 1..K : x \in E(j)
      BY <2>2, <1>3
    <3>2. CASE j = i
      BY <3>1, <3>2, <2>2, <1>3
    <3>3. CASE j \in 1..(i - 1)
      BY <3>1, <3>3, <1>3
    <3>4. CASE j \in (i + 1)..K
      BY <3>1, <3>4, <1>3
    <3> QED
      BY <3>2, <3>3, <3>4, <1>1
  <2> QED
    BY <2>1, <2>2, <1>5
<1>6. l \cup m \cup r = {y \in a : y[1] # k} \cup T
  BY <1>4, <1>5
<1> QED
  BY <1>6 DEF l, m, r, a, E, ChildEdited, NodeSummary

LEMMA GeTrans ==
  ASSUME NEW a \in Nat, NEW b \in Nat, NEW c \in Nat, a >= b, b >= c
  PROVE  a >= c
OBVIOUS

LEMMA SolidIs ==
  ASSUME NEW f, NEW w, NEW n, n.kind = "node"
  PROVE  Summary(f, w, n).solid <=> Len(n.keys) >= MinKeys /\ Tailed(w, n)
BY DEF Summary, NodeSummary, Tailed

LEMMA AddedDense ==
  ASSUME NEW f, NEW w, NEW loaded \in BOOLEAN, TreesOK(f, w, loaded), NEW q \in Nodes(f), NEW k, NEW v,
         NEW c, Added(f, w, loaded, q, k, v, c), NEW u0, TreesOK(c.file, u0, loaded), Agrees(f, w, u0),
         Halves(c.file, u0, loaded, With(w[q], k, v), c.halves, c.seps)
  PROVE  loaded \/ \A a \in 1..Len(c.halves) : c.halves[a].kind = "node" => Len(c.halves[a].keys) >= 1
<1> DEFINE hs == c.halves
           m == With(w[q], k, v)
<1>1. f \in Seq(Records) /\ \A x \in Nodes(f) : SummaryOK(w[x])
  BY DEF TreesOK
<1>6. /\ c.file \in Seq(Records)
      /\ Len(c.seps) = 0 => Len(hs[1].keys) >= Len(f[q].keys)
  BY DEF Added
<1>8. /\ hs \in Seq(Records) /\ Len(c.seps) \in {0, 1} /\ Len(hs) = Len(c.seps) + 1
      /\ \A a \in 1..Len(hs) : RecordOK(c.file, u0, hs[a]) /\ Summary(c.file, u0, hs[a]).h = m.h
                               /\ Len(hs[a].keys) \in Nat
      /\ Len(c.seps) = 1 => \A a \in 1..Len(hs) : Len(hs[a].keys) >= MinKeys
  <2>1. /\ hs \in Seq(Records) /\ Len(c.seps) \in {0, 1} /\ Len(hs) = Len(c.seps) + 1
        /\ \A a \in 1..Len(hs) : RecordOK(c.file, u0, hs[a]) /\ Summary(c.file, u0, hs[a]).h = m.h
        /\ Len(c.seps) = 1 => \A a \in 1..2 : Len(hs[a].keys) >= MinKeys
    BY DEF Halves
  <2> HIDE DEF hs, m
  <2>2. \A a \in 1..Len(hs) : Len(hs[a].keys) \in Nat
    BY <2>1, RecordKinds DEF RecordOK, LeafOK, NodeOK
  <2>3. ASSUME Len(c.seps) = 1, NEW a \in 1..Len(hs) PROVE Len(hs[a].keys) >= MinKeys
    <3>1. Len(hs) = 2
      BY <2>1, <2>3
    <3>2. a \in 1..2
      BY <3>1
    <3> QED
      BY <3>2, <2>1, <2>3
  <2> QED
    BY <2>1, <2>2, <2>3
<1>9. m.h = w[q].h /\ m.e = {x \in w[q].e : x[1] # k} \cup {<<k, v>>} /\ m.ks = w[q].ks \cup {k}
  BY DEF With
<1> HIDE DEF hs, m
<1>10. \A a \in 1..Len(hs) : Len(c.seps) = 0 => a = 1
  BY <1>8
<1>11. loaded \/ \A a \in 1..Len(hs) : hs[a].kind = "node" => Len(hs[a].keys) >= 1
  <2> SUFFICES ASSUME ~loaded, NEW a \in 1..Len(hs), hs[a].kind = "node" PROVE Len(hs[a].keys) >= 1
    OBVIOUS
  <2>0. PICK x \in Nat : x = Len(hs[a].keys)
    BY <1>8
  <2>1. CASE Len(c.seps) = 1
    <3>1. x >= MinKeys
      BY <2>0, <2>1, <1>8
    <3>2. x >= 1
      BY <3>1, MinKeysIs
    <3> QED
      BY <3>2, <2>0
  <2>2. CASE Len(c.seps) = 0
    <3>1. \A y \in Nodes(c.file) : SummaryOK(u0[y])
      BY DEF TreesOK
    <3>2. Summary(c.file, u0, hs[a]).h # 0
      BY <3>1, <1>6, <1>8, HeightIs
    <3>3. w[q] = Summary(f, w, f[q]) /\ Fits(f, w, loaded, f[q])
      BY DEF TreesOK
    <3>4. f[q].kind = "node"
      BY <3>2, <3>3, <1>1, <1>8, <1>9, HeightIs DEF Fits
    <3>5. Len(f[q].keys) >= 1 /\ Len(f[q].keys) \in Nat
      BY <3>3, <3>4, RecordKinds DEF Fits, Dense, RecordOK, LeafOK, NodeOK
    <3> QED
      BY <3>5, <2>2, <1>6, <1>8, <1>10
  <2> QED
    BY <2>1, <2>2, <1>8
<1> QED
  BY <1>11 DEF hs

\* Where the way to k leads on from p.
AtChild(f, p, k, i, q) == i = UpperBound(f[p].keys, k) /\ q = f[p].kids[i]

HasChild(f, p, k, m) == \E i \in Nat, q \in Nodes(f) : AtChild(f, p, k, i, q) /\ q <= m /\ q \in Nat

LEMMA AtChildIs ==
  ASSUME NEW f, NEW w, NEW loaded, TreesOK(f, w, loaded), NEW p \in Nodes(f), f[p].kind # "leaf", NEW k \in Nat,
         NEW m \in Nat, p <= m + 1
  PROVE  HasChild(f, p, k, m)
<1>1. PICK i : i = UpperBound(f[p].keys, k)
  OBVIOUS
<1>2. i \in DOMAIN f[p].kids /\ DOMAIN f[p].kids = 1..Len(f[p].kids) /\ Len(f[p].kids) \in Nat
  BY <1>1, KidsBelow
<1>3. f[p].kids[i] \in Nodes(f) /\ f[p].kids[i] <= m
  BY <1>2, KidsBelow
<1>4. f[p].kids[i] \in Nat
  BY <1>3, NodesIs DEF TreesOK
<1>5. i \in Nat
  BY <1>2
<1>6. AtChild(f, p, k, i, f[p].kids[i])
  BY <1>1 DEF AtChild
<1> QED
  BY <1>3, <1>4, <1>5, <1>6 DEF HasChild

\* An insert at an internal node does what it should when it does below its child.
LEMMA AddToNodeIs ==
  ASSUME NEW f, NEW w, NEW loaded \in BOOLEAN, TreesOK(f, w, loaded), NEW p \in Nodes(f), f[p].kind # "leaf",
         NEW k \in Keys, NEW v \in Value, NEW i \in Nat, NEW q \in Nat, AtChild(f, p, k, i, q),
         NEW c, Added(f, w, loaded, q, k, v, c)
  PROVE  Added(f, w, loaded, p, k, v, AddToNode(f[p], i, c))
<1> DEFINE hs == c.halves
           m == With(w[q], k, v)
<1>1. /\ f \in Seq(Records) /\ w[p] = Summary(f, w, f[p]) /\ Fits(f, w, loaded, f[p])
      /\ \A x \in Nodes(f) : SummaryOK(w[x])
  BY DEF TreesOK
<1>2. PICK n : n = f[p]
  OBVIOUS
<1>3. /\ NodeOK(f, w, n) /\ n.kind = "node" /\ Len(n.kids) \in Nat /\ Len(n.kids) = Len(n.keys) + 1
      /\ n.kids \in Seq(Nat) /\ Len(n.keys) \in Nat /\ Len(n.keys) < Order /\ (loaded \/ KidsFilled(f, n))
      /\ w[p] = NodeSummary(w, n)
  <2>1. NodeOK(f, w, n) /\ n.kind = "node" /\ Len(n.kids) \in Nat /\ n.kids \in Seq(Nat)
    BY <1>2, KidsBelow
  <2>2. Len(n.kids) = Len(n.keys) + 1 /\ Len(n.keys) \in Nat
    BY <2>1, RecordKinds DEF NodeOK
  <2> QED
    BY <2>1, <2>2, <1>1, <1>2 DEF Fits, Dense, Summary
<1>4. /\ i \in 1..Len(n.kids) /\ Inside(n, i, 1, k)
      /\ \A kk \in w[q].ks : Inside(n, i, 1, kk)
      /\ \A j \in 1..Len(n.kids) : j # i => \A x \in w[n.kids[j]].e : x[1] # k
  <2>1. i = UpperBound(n.keys, k) /\ q = n.kids[i]
    BY <1>2 DEF AtChild
  <2> QED
    BY <2>1, <1>1, <1>3, ChildOfKey
<1>5. q \in Nodes(f) /\ q = n.kids[i] /\ w[q].h = w[n.kids[1]].h
  BY <1>2, <1>3, <1>4 DEF NodeOK, AtChild
<1>6. /\ c.file \in Seq(Records) /\ Extends(f, c.file)
      /\ c.updated \in BOOLEAN /\ (c.updated <=> \E x \in w[q].e : x[1] = k)
      /\ Len(c.seps) = 0 => Len(hs[1].keys) >= Len(f[q].keys)
  BY DEF Added
<1>7. PICK u0 : TreesOK(c.file, u0, loaded) /\ Agrees(f, w, u0) /\ Halves(c.file, u0, loaded, m, hs, c.seps)
  BY DEF Added
<1>8. /\ hs \in Seq(Records) /\ Len(c.seps) \in {0, 1} /\ Len(hs) = Len(c.seps) + 1
      /\ \A a \in 1..Len(hs) : RecordOK(c.file, u0, hs[a]) /\ Summary(c.file, u0, hs[a]).h = m.h
                               /\ Len(hs[a].keys) \in Nat
      /\ Len(c.seps) = 1 => \A a \in 1..Len(hs) : Len(hs[a].keys) >= MinKeys
  <2>1. /\ hs \in Seq(Records) /\ Len(c.seps) \in {0, 1} /\ Len(hs) = Len(c.seps) + 1
        /\ \A a \in 1..Len(hs) : RecordOK(c.file, u0, hs[a]) /\ Summary(c.file, u0, hs[a]).h = m.h
        /\ Len(c.seps) = 1 => \A a \in 1..2 : Len(hs[a].keys) >= MinKeys
    BY <1>7 DEF Halves
  <2> HIDE DEF hs, m
  <2>2. \A a \in 1..Len(hs) : Len(hs[a].keys) \in Nat
    BY <2>1, RecordKinds DEF RecordOK, LeafOK, NodeOK
  <2>3. ASSUME Len(c.seps) = 1, NEW a \in 1..Len(hs) PROVE Len(hs[a].keys) >= MinKeys
    <3>1. Len(hs) = 2
      BY <2>1, <2>3
    <3>2. a \in 1..2
      BY <3>1
    <3> QED
      BY <3>2, <2>1, <2>3
  <2> QED
    BY <2>1, <2>2, <2>3
<1>9. m.h = w[q].h /\ m.e = {x \in w[q].e : x[1] # k} \cup {<<k, v>>} /\ m.ks = w[q].ks \cup {k}
      /\ m.solid = w[q].solid
  BY DEF With
<1> HIDE DEF hs, m
<1>10. \A a \in 1..Len(hs) : Len(c.seps) = 0 => a = 1
  BY <1>8
<1>11. loaded \/ \A a \in 1..Len(hs) : hs[a].kind = "node" => Len(hs[a].keys) >= 1
  BY <1>5, <1>7, AddedDense DEF hs, m
<1>12. PICK g : g = c.file \o hs
  OBVIOUS
<1>13. PICK ps : ps = Pointers(c.file, hs)
  OBVIOUS
<1>14. PICK u : u = Grown(c.file, u0, hs)
  OBVIOUS
<1>15. Stored(c.file, u0, loaded, hs, ps, g, u)
  BY <1>7, <1>11, <1>12, <1>13, <1>14, HalvesStored
<1>16. PICK new : new = Node(Splice(n.keys, i, 0, c.seps), Splice(n.kids, i, 1, ps))
  OBVIOUS
<1>17. ReplacedBy(f, w, g, u, n, i, 1, m, hs, c.seps, new)
  <2>1. m.ks \in SUBSET Keys
    BY <1>1, <1>5, <1>9 DEF SummaryOK, Summaries
  <2>2. \A kk \in m.ks : Inside(n, i, 1, kk)
    BY <1>4, <1>9
  <2>3. i \in Nat /\ i >= 1 /\ i + 1 <= Len(n.kids) + 1 /\ 1 - 1 = 0
    BY <1>3, <1>4
  <2>5. i + 1 <= Len(n.kids) => m.solid
    <3> SUFFICES ASSUME i + 1 <= Len(n.kids) PROVE m.solid
      OBVIOUS
    <3>1. i \in 1..Len(n.keys)
      BY <1>3, <1>4
    <3> QED
      BY <3>1, <1>3, <1>5, <1>9 DEF NodeOK
  <2>4. Replacement(f, w, c.file, u0, g, u, loaded, n, i, 1, m, hs, c.seps, ps, new)
    BY <2>1, <2>2, <2>3, <2>5, <1>1, <1>3, <1>5, <1>6, <1>7, <1>9, <1>15, <1>16 DEF Replacement
  <2> QED
    BY <2>4, ReplacementIs
<1>18. /\ NodeOK(g, u, new) /\ new.kind = "node" /\ new \in Records
       /\ Len(new.keys) = Len(n.keys) - (1 - 1) + Len(c.seps)
       /\ KidsFilled(f, n) /\ (\A a \in 1..Len(hs) : Len(hs[a].keys) >= MinKeys) => KidsFilled(g, new)
       /\ Summary(g, u, new).h = Summary(f, w, n).h
       /\ Summary(g, u, new).e = (UNION {w[n.kids[j]].e : j \in 1..(i - 1)}) \cup m.e
                                   \cup (UNION {w[n.kids[j]].e : j \in (i + 1)..Len(n.kids)})
       /\ Summary(g, u, new).ks \subseteq Summary(f, w, n).ks \cup m.ks
       /\ (IF i + 1 <= Len(n.kids) THEN Tailed(w, n) ELSE m.solid) => Tailed(u, new)
  BY <1>17 DEF ReplacedBy
<1>19. loaded \/ KidsFilled(g, new)
  <2> SUFFICES ASSUME ~loaded PROVE KidsFilled(g, new)
    OBVIOUS
  <2>1. ASSUME NEW a \in 1..Len(hs), Len(c.seps) = 0 PROVE Len(hs[a].keys) >= MinKeys
    <3>1. Len(f[q].keys) >= MinKeys
      BY <1>3, <1>4, <1>5 DEF KidsFilled
    <3>2. Len(f[q].keys) \in Nat /\ MinKeys \in Nat
      <4>1. RecordOK(f, w, f[q])
        BY <1>5 DEF TreesOK, Fits
      <4> QED
        BY <4>1, RecordKinds, MinKeysIs DEF RecordOK, LeafOK, NodeOK
    <3> QED
      BY <3>1, <3>2, <2>1, <1>6, <1>8, <1>10
  <2>2. \A a \in 1..Len(hs) : Len(hs[a].keys) >= MinKeys
    BY <2>1, <1>8
  <2> QED
    BY <2>2, <1>3, <1>18
<1>20. Len(new.keys) = Len(n.keys) + Len(c.seps) /\ Len(new.keys) \in Nat
       /\ Len(new.keys) >= Len(n.keys) /\ Len(new.keys) <= 2 * Order - 2
  <2>1. PICK s \in {0, 1}, L \in Nat : s = Len(c.seps) /\ L = Len(n.keys)
    BY <1>3, <1>8
  <2>2. Len(new.keys) = L + s
    BY <2>1, <1>18
  <2>3. L < Order
    BY <2>1, <1>3
  <2>4. L + s \in Nat /\ L + s >= L /\ L + s <= 2 * Order - 2
    BY <2>3, OrderAssumption
  <2> QED
    BY <2>1, <2>2, <2>4
<1>21. TreesOK(g, u, loaded) /\ g \in Seq(Records) /\ Extends(f, g) /\ Agrees(f, w, u)
  <2>1. TreesOK(g, u, loaded) /\ g \in Seq(Records) /\ Extends(c.file, g) /\ Agrees(c.file, u0, u)
    BY <1>15 DEF Stored
  <2> QED
    BY <2>1, <1>1, <1>6, <1>7, ExtendsOn
<1>22. PICK fit : fit = Fit(new)
  OBVIOUS
<1>23. /\ Halves(g, u, loaded, Summary(g, u, new), fit.halves, fit.seps)
       /\ Len(new.keys) < Order => fit.halves = <<new>> /\ fit.seps = <<>>
       /\ Len(new.keys) >= Order => Len(fit.seps) = 1
  <2>1. \A x \in Nodes(g) : SummaryOK(u[x])
    BY <1>21 DEF TreesOK
  <2>2. RecordOK(g, u, new)
    BY <1>18 DEF RecordOK
  <2> QED
    BY <2>1, <2>2, <1>19, <1>20, <1>21, <1>22, FitIs
<1>24. Halves(g, u, loaded, With(w[p], k, v), fit.halves, fit.seps)
  <2>1. Summary(f, w, n) = w[p] /\ w[p] = NodeSummary(w, n)
    BY <1>1, <1>2, <1>3
  <2>2. ChildEdited(w, n, i, k, {<<k, v>>})
    BY <1>3, <1>4, ChildEditedIs
  <2>3. Summary(g, u, new).e = {x \in w[p].e : x[1] # k} \cup {<<k, v>>}
    BY <2>1, <2>2, <1>5, <1>9, <1>18 DEF ChildEdited
  <2>4. w[q].ks \subseteq w[p].ks
    BY <2>1, <1>4, <1>5 DEF NodeSummary
  <2>5. Summary(g, u, new).ks \subseteq w[p].ks \cup {k}
    BY <2>1, <2>4, <1>9, <1>18
  <2>6. With(w[p], k, v).h = Summary(g, u, new).h /\ With(w[p], k, v).e = Summary(g, u, new).e
        /\ With(w[p], k, v).ks = w[p].ks \cup {k} /\ With(w[p], k, v).solid = w[p].solid
    BY <2>1, <2>3, <1>18 DEF With
  <2>7. ASSUME w[p].solid PROVE Summary(g, u, new).solid
    <3>1. Summary(f, w, n).solid
      BY <2>1, <2>7
    <3>2. Len(n.keys) >= MinKeys /\ Tailed(w, n)
      BY <3>1, <1>3, SolidIs
    <3>3. Len(new.keys) >= MinKeys
      <4>1. Len(new.keys) \in Nat /\ Len(n.keys) \in Nat /\ MinKeys \in Nat
        BY <1>3, <1>20, MinKeysIs
      <4>2. Len(new.keys) >= Len(n.keys) /\ Len(n.keys) >= MinKeys
        BY <3>2, <1>20
      <4> QED
        BY <4>1, <4>2, GeTrans
    <3>4. ~(i + 1 <= Len(n.kids)) => i = Len(n.kids)
      BY <1>3, <1>4
    <3>5. w[n.kids[Len(n.kids)]].solid
      BY <3>2, <1>3 DEF Tailed
    <3>6. ~(i + 1 <= Len(n.kids)) => m.solid
      BY <3>4, <3>5, <1>5, <1>9
    <3>7. Tailed(u, new)
      BY <3>2, <3>6, <1>18
    <3> QED
      BY <3>3, <3>7, <1>18, SolidIs
  <2> DEFINE mm == Summary(g, u, new)
             m2 == With(w[p], k, v)
  <2>8. Halves(g, u, loaded, mm, fit.halves, fit.seps)
    BY <1>23
  <2>9. m2.h = mm.h /\ m2.e = mm.e /\ mm.ks \subseteq m2.ks /\ (m2.solid => mm.solid)
    BY <2>5, <2>6, <2>7
  <2> HIDE DEF mm, m2
  <2>10. Halves(g, u, loaded, m2, fit.halves, fit.seps)
    BY <2>8, <2>9, HalvesWiden
  <2> QED
    BY <2>10 DEF m2
<1>25. (\E x \in w[q].e : x[1] = k) <=> (\E x \in w[p].e : x[1] = k)
  <2>1. w[p].e = UNION {w[n.kids[j]].e : j \in 1..Len(n.kids)}
    BY <1>3 DEF NodeSummary
  <2> QED
    BY <2>1, <1>4, <1>5
<1>26. PICK r : r = AddToNode(f[p], i, c)
  OBVIOUS
<1>27. r.file = g /\ r.halves = fit.halves /\ r.seps = fit.seps /\ r.updated = c.updated
  BY <1>2, <1>12, <1>13, <1>16, <1>22, <1>26 DEF AddToNode, hs
<1>28. Len(r.seps) = 0 => Len(r.halves[1].keys) >= Len(f[p].keys)
  <2> SUFFICES ASSUME Len(r.seps) = 0 PROVE Len(r.halves[1].keys) >= Len(f[p].keys)
    OBVIOUS
  <2>0. Len(fit.seps) = 0
    BY <1>27
  <2>3. ~ (Len(new.keys) >= Order)
    BY <2>0, <1>23
  <2>4. PICK x \in Nat : x = Len(new.keys)
    BY <1>20
  <2>5. x < Order
    BY <2>3, <2>4, OrderAssumption
  <2>1. Len(new.keys) < Order
    BY <2>4, <2>5
  <2>2. r.halves[1] = new
    BY <2>1, <1>23, <1>27
  <2> QED
    BY <2>2, <1>2, <1>20
<1>29. \E uu : TreesOK(r.file, uu, loaded) /\ Agrees(f, w, uu)
                 /\ Halves(r.file, uu, loaded, With(w[p], k, v), r.halves, r.seps)
  BY <1>21, <1>24, <1>27
<1>30. Added(f, w, loaded, p, k, v, r)
  BY <1>6, <1>21, <1>25, <1>27, <1>28, <1>29 DEF Added
<1> QED
  BY <1>26, <1>30

\* An insert does what it should below every node.
LEMMA AddNodeAdds ==
  ASSUME NEW f, NEW w, NEW loaded \in BOOLEAN, TreesOK(f, w, loaded), NEW k \in Keys, NEW v \in Value
  PROVE  \A p \in Nodes(f) : Added(f, w, loaded, p, k, v, AddNode(f, p, k, v))
<1> DEFINE A(p) == Added(f, w, loaded, p, k, v, AddNode(f, p, k, v))
           S == {m \in 0..Len(f) : \A p \in Nodes(f) : p <= m => A(p)}
<1>0. f \in Seq(Records) /\ Len(f) \in Nat /\ \A p \in Nodes(f) : p \in 1..Len(f)
  BY NodesIs DEF TreesOK
<1>1. 0 \in S
  BY <1>0
<1>2. ASSUME NEW m \in 0..Len(f), m < Len(f), m \in S PROVE m + 1 \in S
  <2>1. m + 1 \in 0..Len(f)
    BY <1>0, <1>2
  <2>2. ASSUME NEW p \in Nodes(f), p <= m + 1 PROVE A(p)
    <3>0. k \in Nat
      BY MapAssumption DEF Keys
    <3>1. AddNode(f, p, k, v) =
            IF f[p].kind = "leaf" THEN AddToLeaf(f, f[p], k, v)
            ELSE AddToNode(f[p], UpperBound(f[p].keys, k), AddNode(f, f[p].kids[UpperBound(f[p].keys, k)], k, v))
      BY <3>0, AddNodeIs
    <3>2. CASE f[p].kind = "leaf"
      BY <3>1, <3>2, AddToLeafIs
    <3>3. CASE f[p].kind # "leaf"
      <4>0. HasChild(f, p, k, m)
        BY <3>0, <3>3, <2>2, AtChildIs
      <4>1. PICK i \in Nat, q \in Nodes(f) : AtChild(f, p, k, i, q) /\ q <= m /\ q \in Nat
        BY <4>0 DEF HasChild
      <4>2. AddNode(f, p, k, v) = AddToNode(f[p], i, AddNode(f, q, k, v))
        BY <4>1, <3>1, <3>3 DEF AtChild
      <4>3. Added(f, w, loaded, q, k, v, AddNode(f, q, k, v))
        BY <4>1, <1>2
      <4> QED
        BY <4>1, <4>2, <4>3, <3>3, AddToNodeIs
    <3> QED
      BY <3>2, <3>3
  <2> HIDE DEF A
  <2> QED
    BY <2>1, <2>2
<1> HIDE DEF S
<1>3. \A m \in 0..Len(f) : m \in S
  <2>1. \A i \in 0..Len(f) : i < Len(f) /\ i \in S => i + 1 \in S
    BY <1>2
  <2> QED
    BY <2>1, <1>0, <1>1, UpTo
<1>4. Len(f) \in S
  BY <1>3, <1>0
<1> QED
  BY <1>4, <1>0 DEF S

\* The file g has a new root at its end, with the entries es.
Rooted(f, w, loaded, es, g) ==
  /\ g \in Seq(Records) /\ Extends(f, g) /\ Len(g) \in Nodes(g)
  /\ \E u : TreesOK(g, u, loaded) /\ Agrees(f, w, u) /\ u[Len(g)].e = es

IsTop(seps, ps, new) == new = Node(seps, ps) /\ Len(seps) = 1

\* A node over two halves.
LEMMA TopIs ==
  ASSUME NEW f, NEW w, NEW loaded \in BOOLEAN, TreesOK(f, w, loaded), NEW m, NEW hs, NEW seps,
         Halves(f, w, loaded, m, hs, seps), m.ks \in SUBSET Keys, NEW g, NEW u, NEW ps,
         Stored(f, w, loaded, hs, ps, g, u), NEW new, IsTop(seps, ps, new)
  PROVE  new \in Records /\ new.kind = "node" /\ Fits(g, u, loaded, new) /\ Summary(g, u, new).e = m.e
<1>1. /\ seps \in Seq(m.ks) /\ Len(hs) = 2
      /\ \A a \in 1..2 : Summary(f, w, hs[a]).h = m.h /\ Len(hs[a].keys) >= MinKeys
      /\ UNION {Summary(f, w, hs[a]).e : a \in 1..2} = m.e
      /\ \A k \in Summary(f, w, hs[1]).ks : k < seps[1]
      /\ \A k \in Summary(f, w, hs[2]).ks : seps[1] <= k
      /\ Summary(f, w, hs[1]).solid
  BY DEF Halves, IsTop
<1>2. /\ ps \in Seq(Nat) /\ Len(ps) = 2 /\ g \in Seq(Records)
      /\ \A a \in 1..2 : ps[a] \in Nodes(g) /\ g[ps[a]] = hs[a] /\ u[ps[a]] = Summary(f, w, hs[a])
  BY <1>1 DEF Stored
<1>3. seps \in Seq(Keys)
  <2>1. \A a \in 1..Len(seps) : seps[a] \in Keys
    BY <1>1
  <2> QED
    BY <2>1, <1>1
<1>4. new.kind = "node" /\ new.keys = seps /\ new.kids = ps /\ new \in NodeRecords /\ new \in Records
  <2>1. new.kind = "node" /\ new.keys = seps /\ new.kids = ps
    BY DEF Node, IsTop
  <2>2. new \in NodeRecords
    BY <1>2, <1>3 DEF Node, NodeRecords, IsTop
  <2> QED
    BY <2>1, <2>2, RecordKinds
<1>9. Len(seps) = 1 /\ Len(new.keys) = 1 /\ Len(new.kids) = 2 /\ Len(new.kids) = Len(new.keys) + 1
  <2>1. Len(seps) = 1
    BY DEF IsTop
  <2>2. Len(new.keys) = Len(seps) /\ Len(new.kids) = Len(ps)
    BY <1>4
  <2> QED
    BY <2>1, <2>2, <1>2
<1>5. 1 \in 1..2 /\ 2 \in 1..2 /\ 1..2 = {1, 2} /\ 1..1 = {1}
  OBVIOUS
<1>6. NodeOK(g, u, new)
  <2>2. \A a \in 1..2 : ps[a] \in Nodes(g) /\ u[ps[a]].h = u[ps[1]].h
    BY <1>1, <1>2, <1>5
  <2>3. Ascends(seps)
    BY <1>5, <1>9 DEF Ascends
  <2>4. \A a \in 1..2, j \in 1..1 : \A k \in u[ps[a]].ks : IF j < a THEN seps[j] <= k ELSE k < seps[j]
    BY <1>1, <1>2, <1>5
  <2>5. \A j \in 1..1 : u[ps[j]].solid
    BY <1>1, <1>2, <1>5
  <2> QED
    BY <2>2, <2>3, <2>4, <2>5, <1>4, <1>9 DEF NodeOK
<1>7. KidsFilled(g, new) /\ Dense(g, new) /\ Len(new.keys) < Order
  <2>1. \A a \in 1..2 : Len(g[new.kids[a]].keys) >= MinKeys
    BY <1>1, <1>2, <1>4
  <2>2. KidsFilled(g, new)
    BY <2>1, <1>9 DEF KidsFilled
  <2>3. Len(new.keys) >= 1 /\ Len(new.keys) < Order
    BY <1>9, OrderAssumption
  <2> QED
    BY <2>2, <2>3 DEF Dense
<1>8. Summary(g, u, new).e = m.e
  <2>1. Summary(g, u, new).e = UNION {u[ps[a]].e : a \in 1..2}
    <3>1. Summary(g, u, new) = NodeSummary(u, new)
      BY <1>4 DEF Summary
    <3> QED
      BY <3>1, <1>4, <1>9 DEF NodeSummary
  <2>2. {u[ps[a]].e : a \in 1..2} = {Summary(f, w, hs[a]).e : a \in 1..2}
    BY <1>2
  <2> QED
    BY <2>1, <2>2, <1>1
<1> QED
  BY <1>4, <1>6, <1>7, <1>8 DEF Fits, RecordOK

\* A node saved at the end of the file is a root.
LEMMA RootSaved ==
  ASSUME NEW f, NEW w, NEW loaded \in BOOLEAN, TreesOK(f, w, loaded), NEW n \in Records,
         n.kind \in {"leaf", "node"}, Fits(f, w, loaded, n)
  PROVE  Rooted(f, w, loaded, Summary(f, w, n).e, Append(f, n))
<1> DEFINE ns == <<n>>
<1>1. ns \in Seq(Records) /\ Len(ns) = 1 /\ ns[1] = n
  OBVIOUS
<1>2. f \in Seq(Records) /\ Len(f) \in Nat
  BY DEF TreesOK
<1>3. Append(f, n) = f \o ns
  BY <1>2, AppendIs
<1> HIDE DEF ns
<1>4. Stored(f, w, loaded, ns, Pointers(f, ns), f \o ns, Grown(f, w, ns))
  <2>1. \A i \in 1..Len(ns) : ns[i].kind \in {"leaf", "node"} /\ Fits(f, w, loaded, ns[i])
    BY <1>1
  <2> QED
    BY <2>1, <1>1, StoredIs
<1>5. PICK g, u, ps : Stored(f, w, loaded, ns, ps, g, u) /\ g = Append(f, n)
  BY <1>3, <1>4
<1>6. /\ TreesOK(g, u, loaded) /\ Extends(f, g) /\ Agrees(f, w, u) /\ g \in Seq(Records)
      /\ Len(g) = Len(f) + 1 /\ Len(g) \in Nodes(g) /\ u[Len(g)] = Summary(f, w, n)
  <2>1. 1 \in 1..Len(ns)
    BY <1>1
  <2> QED
    BY <2>1, <1>1, <1>5 DEF Stored
<1>7. Rooted(f, w, loaded, Summary(f, w, n).e, g)
  BY <1>6 DEF Rooted
<1> QED
  BY <1>5, <1>7

LEMMA RootedOn ==
  ASSUME NEW f \in Seq(Records), NEW g \in Seq(Records), NEW h, NEW w, NEW u, NEW loaded, NEW es,
         Extends(f, g), Agrees(f, w, u), Rooted(g, u, loaded, es, h)
  PROVE  Rooted(f, w, loaded, es, h)
<1>1. h \in Seq(Records) /\ Extends(g, h) /\ Len(h) \in Nodes(h)
  BY DEF Rooted
<1>2. PICK v : TreesOK(h, v, loaded) /\ Agrees(g, u, v) /\ v[Len(h)].e = es
  BY DEF Rooted
<1>3. Extends(f, h) /\ Agrees(f, w, v)
  BY <1>1, <1>2, ExtendsOn
<1> QED
  BY <1>1, <1>2, <1>3 DEF Rooted

AddedRoot(f, w, loaded, top, k, v, r) ==
  /\ Rooted(f, w, loaded, With(w[top], k, v).e, r.file)
  /\ r.updated \in BOOLEAN /\ (r.updated <=> \E x \in w[top].e : x[1] = k)

\* An insert leaves a root with the entries of the old one and the new one, and knows
\* whether it replaced one.
LEMMA AddRootIs ==
  ASSUME NEW f, NEW w, NEW loaded \in BOOLEAN, TreesOK(f, w, loaded), NEW top \in Nodes(f),
         NEW k \in Keys, NEW v \in Value
  PROVE  AddedRoot(f, w, loaded, top, k, v, AddRoot(f, top, k, v))
<1>1. PICK c : c = AddNode(f, top, k, v)
  OBVIOUS
<1>2. Added(f, w, loaded, top, k, v, c)
  BY <1>1, AddNodeAdds
<1>3. /\ f \in Seq(Records) /\ \A x \in Nodes(f) : SummaryOK(w[x])
      /\ c.file \in Seq(Records) /\ Extends(f, c.file)
      /\ c.updated \in BOOLEAN /\ (c.updated <=> \E x \in w[top].e : x[1] = k)
  BY <1>2 DEF TreesOK, Added
<1>4. PICK m : m = With(w[top], k, v)
  OBVIOUS
<1>5. PICK u0 : TreesOK(c.file, u0, loaded) /\ Agrees(f, w, u0) /\ Halves(c.file, u0, loaded, m, c.halves, c.seps)
  BY <1>2, <1>4 DEF Added
<1>6. /\ c.halves \in Seq(Records) /\ Len(c.seps) \in {0, 1} /\ Len(c.halves) = Len(c.seps) + 1
      /\ \A a \in 1..Len(c.halves) : RecordOK(c.file, u0, c.halves[a]) /\ Len(c.halves[a].keys) < Order
                                     /\ (loaded \/ KidsFilled(c.file, c.halves[a]))
      /\ UNION {Summary(c.file, u0, c.halves[a]).e : a \in 1..Len(c.halves)} = m.e
  BY <1>5 DEF Halves
<1>7. loaded \/ \A a \in 1..Len(c.halves) : c.halves[a].kind = "node" => Len(c.halves[a].keys) >= 1
  BY <1>2, <1>4, <1>5, AddedDense
<1>8. PICK r : r = AddRoot(f, top, k, v)
  OBVIOUS
<1>9. /\ r.updated = c.updated
      /\ r.file = IF Len(c.halves) = 1 THEN c.file \o c.halves
                  ELSE Append(c.file \o c.halves, Node(c.seps, Pointers(c.file, c.halves)))
  BY <1>1, <1>8 DEF AddRoot
<1>10. Rooted(c.file, u0, loaded, m.e, r.file)
  <2>1. CASE Len(c.seps) = 0
    <3>1. PICK n : n = c.halves[1]
      OBVIOUS
    <3>2. Len(c.halves) = 1 /\ 1 \in 1..Len(c.halves) /\ 1..Len(c.halves) = {1}
      BY <2>1, <1>6
    <3>3. n \in Records /\ c.halves = <<n>>
      BY <3>1, <3>2, <1>6
    <3>4. r.file = Append(c.file, n)
      BY <3>2, <3>3, <1>3, <1>9, AppendIs
    <3>5. RecordOK(c.file, u0, n) /\ Fits(c.file, u0, loaded, n)
      BY <3>1, <3>2, <1>6, <1>7 DEF Fits, Dense
    <3>6. n.kind \in {"leaf", "node"}
      BY <3>5, RecordKinds DEF RecordOK, LeafOK, NodeOK
    <3>7. Summary(c.file, u0, n).e = m.e
      <4>1. {Summary(c.file, u0, c.halves[a]).e : a \in 1..Len(c.halves)} = {Summary(c.file, u0, n).e}
        BY <3>1, <3>2
      <4> QED
        BY <4>1, <1>6
    <3> QED
      BY <3>3, <3>4, <3>5, <3>6, <3>7, <1>5, RootSaved
  <2>2. CASE Len(c.seps) = 1
    <3>1. PICK g, u, ps : Stored(c.file, u0, loaded, c.halves, ps, g, u) /\ g = c.file \o c.halves
                          /\ ps = Pointers(c.file, c.halves)
      BY <1>5, <1>7, HalvesStored
    <3>2. PICK n : n = Node(c.seps, ps)
      OBVIOUS
    <3>3. Len(c.halves) # 1
      BY <2>2, <1>6
    <3>4. r.file = Append(g, n)
      BY <3>1, <3>2, <3>3, <1>9
    <3>5. m.ks \in SUBSET Keys
      BY <1>3, <1>4 DEF With, SummaryOK, Summaries
    <3>6. n \in Records /\ n.kind = "node" /\ Fits(g, u, loaded, n) /\ Summary(g, u, n).e = m.e
      <4>1. IsTop(c.seps, ps, n)
        BY <3>2, <2>2 DEF IsTop
      <4> QED
        BY <4>1, <3>1, <3>5, <1>5, TopIs
    <3>7. TreesOK(g, u, loaded) /\ g \in Seq(Records) /\ Extends(c.file, g) /\ Agrees(c.file, u0, u)
      BY <3>1 DEF Stored
    <3>8. Rooted(g, u, loaded, m.e, r.file)
      BY <3>4, <3>6, <3>7, RootSaved
    <3> QED
      BY <3>7, <3>8, <1>3, RootedOn
  <2> QED
    BY <2>1, <2>2, <1>6
<1>11. Rooted(f, w, loaded, m.e, r.file)
  BY <1>3, <1>5, <1>10, RootedOn
<1>12. AddedRoot(f, w, loaded, top, k, v, r)
  BY <1>3, <1>4, <1>9, <1>11 DEF AddedRoot
<1> QED
  BY <1>8, <1>12

-----------------------------------------------------------------------------
(* Delete.                                                                 *)

LEMMA RemovalPlace ==
  ASSUME NEW L \in Nat, NEW i \in 1..L
  PROVE  /\ L - 1 \in Nat /\ i + 1 <= L + 1
         /\ \A j \in 1..(L - 1) : j \in 1..(i - 1) \/ (j \in i..(L - 1) /\ j + 1 \in 1..L /\ j + 1 \in (i + 1)..L)
         /\ \A j \in 1..(i - 1) : j \in 1..L /\ j \in 1..(L - 1) /\ j < i
         /\ \A j \in i..(L - 1) : j \in 1..(L - 1) /\ j + 1 \in 1..L /\ j >= i
         /\ \A j \in 1..L : j \in 1..(i - 1) \/ j = i \/ (j - 1 \in i..(L - 1) /\ (j - 1) + 1 = j /\ j \in (i + 1)..L)
  OBVIOUS

RemoveFromLeaf(g, n, k, i, new) ==
  /\ g \in Seq(Records) /\ LeafOK(g, n) /\ k \in Keys /\ k \in Range(n.keys) /\ i = LowerBound(n.keys, k)
  /\ new = Leaf(Splice(n.keys, i, 1, <<>>), Splice(n.vals, i, 1, <<>>))

LeafWithout(g, n, k, new) ==
  /\ LeafOK(g, new) /\ new.kind = "leaf" /\ Len(new.keys) = Len(n.keys) - 1 /\ Len(n.keys) \in Nat
  /\ LeafSummary(g, new).h = 0
  /\ LeafSummary(g, new).e = {x \in LeafSummary(g, n).e : x[1] # k}
  /\ LeafSummary(g, new).ks \subseteq LeafSummary(g, n).ks
  /\ \E x \in LeafSummary(g, n).e : x[1] = k

\* y is x, of length L, without its element at i.
Removed(S, x, L, i, y) ==
  /\ y \in Seq(S) /\ Len(y) = L - 1
  /\ \A j \in 1..(i - 1) : y[j] = x[j]
  /\ \A j \in i..(L - 1) : y[j] = x[j + 1]

LEMMA RemovedIs ==
  ASSUME NEW S, NEW x \in Seq(S), NEW L \in Nat, L = Len(x), NEW i \in 1..L, NEW y, y = Splice(x, i, 1, <<>>)
  PROVE  Removed(S, x, L, i, y)
<1>1. PICK r : r = <<>>
  OBVIOUS
<1>2. r \in Seq(S) /\ Len(r) = 0
  BY <1>1
<1>3. PICK d \in Int : d = 0 - 1
  OBVIOUS
<1>4. Spliced(S, x, r, i, 1, d, y)
  BY <1>1, <1>2, <1>3 DEF Spliced
<1>5. y \in Seq(S) /\ Len(y) = Len(x) + d /\ Moved(x, y, r, i, Len(r), Len(x) + d, d)
  BY <1>4, MovedIs
<1>6. \A j \in 1..(i - 1) : y[j] = x[j]
  BY <1>5 DEF Moved
<1>7. ASSUME NEW j \in i..(L - 1) PROVE y[j] = x[j + 1]
  <2>1. j - d = j + 1 /\ j \in (i + Len(r))..(Len(x) + d)
    BY <1>2, <1>3
  <2> QED
    BY <2>1, <1>5 DEF Moved
<1>8. Len(y) = L - 1
  BY <1>3, <1>5
<1> QED
  BY <1>5, <1>6, <1>7, <1>8 DEF Removed

\* A leaf without a key is in order and lacks only that.
LEMMA LeafWithoutIs ==
  ASSUME NEW g, NEW n, NEW k, NEW i, NEW new, RemoveFromLeaf(g, n, k, i, new)
  PROVE  LeafWithout(g, n, k, new)
<1>1. /\ n \in LeafRecords /\ n.kind = "leaf" /\ n.keys \in Seq(Keys) /\ n.vals \in Seq(Refs)
      /\ Len(n.vals) = Len(n.keys) /\ Ascends(n.keys) /\ Len(n.keys) \in Nat
      /\ \A j \in 1..Len(n.vals) : n.vals[j][1] = "at" =>
           n.vals[j][2] \in 1..Len(g) /\ g[n.vals[j][2]] \in ValueRecords
  BY RecordKinds DEF LeafOK, RemoveFromLeaf
<1>2. PICK L \in Nat : L = Len(n.keys)
  BY <1>1
<1>3. k \in Nat /\ \A j \in 1..L : n.keys[j] \in Nat /\ n.keys[j] \in Keys
  BY <1>1, <1>2, KeyRows, MapAssumption DEF Keys, RemoveFromLeaf
<1>4. i \in 1..(L + 1) /\ \A j \in 1..L : IF j < i THEN n.keys[j] < k ELSE k <= n.keys[j]
  BY <1>1, <1>2, <1>3, LowerIs DEF RemoveFromLeaf
<1>5. i \in 1..L /\ n.keys[i] = k
  <2>1. Range(n.keys) = {n.keys[j] : j \in 1..L}
    BY <1>1, <1>2 DEF Range
  <2>2. k \in Range(n.keys)
    BY DEF RemoveFromLeaf
  <2>3. PICK j \in 1..L : n.keys[j] = k
    BY <2>1, <2>2
  <2>4. ~ (j < i)
    BY <1>3, <1>4, <2>3
  <2>5. i \in 1..L
    BY <1>4, <2>4
  <2>6. k <= n.keys[i] /\ (i < j => n.keys[i] < n.keys[j])
    BY <1>1, <1>2, <1>4, <2>5 DEF Ascends
  <2> QED
    BY <1>3, <2>3, <2>4, <2>5, <2>6
<1>6. \A a, b \in 1..L : a < b => n.keys[a] < n.keys[b]
  BY <1>1, <1>2 DEF Ascends
<1>7. PICK M \in Nat : M = L - 1
  <2>1. L - 1 \in Nat
    BY <1>5
  <2> QED
    BY <2>1
<1>8. /\ \A j \in 1..M : j \in 1..(i - 1) \/ (j \in i..M /\ j + 1 \in 1..L /\ j + 1 \in (i + 1)..L)
      /\ \A j \in 1..(i - 1) : j \in 1..L /\ j \in 1..M /\ j < i
      /\ \A j \in i..M : j \in 1..M /\ j + 1 \in 1..L /\ j >= i
      /\ \A j \in 1..L : j \in 1..(i - 1) \/ j = i \/ (j - 1 \in i..M /\ (j - 1) + 1 = j /\ j \in (i + 1)..L)
  BY <1>5, <1>7, RemovalPlace
<1>9. /\ new.keys \in Seq(Keys) /\ Len(new.keys) = M
      /\ \A j \in 1..(i - 1) : new.keys[j] = n.keys[j]
      /\ \A j \in i..M : new.keys[j] = n.keys[j + 1]
  <2>1. new.keys = Splice(n.keys, i, 1, <<>>)
    BY DEF Leaf, RemoveFromLeaf
  <2>2. Removed(Keys, n.keys, L, i, new.keys)
    BY <2>1, <1>1, <1>2, <1>5, RemovedIs
  <2> QED
    BY <2>2, <1>7 DEF Removed
<1>10. /\ new.vals \in Seq(Refs) /\ Len(new.vals) = M
       /\ \A j \in 1..(i - 1) : new.vals[j] = n.vals[j]
       /\ \A j \in i..M : new.vals[j] = n.vals[j + 1]
  <2>1. new.vals = Splice(n.vals, i, 1, <<>>)
    BY DEF Leaf, RemoveFromLeaf
  <2>2. Removed(Refs, n.vals, L, i, new.vals)
    BY <2>1, <1>1, <1>2, <1>5, RemovedIs
  <2> QED
    BY <2>2, <1>7 DEF Removed
<1>11. new \in LeafRecords /\ new.kind = "leaf"
  <2>1. new.kind = "leaf" /\ new = [kind |-> "leaf", keys |-> new.keys, vals |-> new.vals]
    BY DEF Leaf, RemoveFromLeaf
  <2> QED
    BY <2>1, <1>9, <1>10 DEF LeafRecords
<1>12. \A j \in 1..M : new.vals[j][1] = "at" => new.vals[j][2] \in 1..Len(g) /\ g[new.vals[j][2]] \in ValueRecords
  <2> DEFINE Z == {x \in Refs : x[1] = "at" => x[2] \in 1..Len(g) /\ g[x[2]] \in ValueRecords}
  <2>1. \A j \in 1..L : n.vals[j] \in Z
    BY <1>1, <1>2
  <2>2. \A j \in 1..M : new.vals[j] \in Z
    <3> HIDE DEF Z
    <3> QED
      BY <2>1, <1>8, <1>10
  <2> QED
    BY <2>2
<1>13. ASSUME NEW a \in 1..M, NEW b \in 1..M, a < b PROVE new.keys[a] < new.keys[b]
  <2>1. CASE a \in 1..(i - 1) /\ b \in 1..(i - 1)
    BY <2>1, <1>6, <1>8, <1>9, <1>13
  <2>2. CASE a \in 1..(i - 1) /\ b \in i..M /\ b + 1 \in 1..L
    <3>1. a < b + 1 /\ a \in 1..L
      BY <2>2, <1>5, <1>8
    <3> QED
      BY <3>1, <2>2, <1>6, <1>9
  <2>3. CASE a \in i..M /\ b \in i..M /\ a + 1 \in 1..L /\ b + 1 \in 1..L
    <3>1. a + 1 < b + 1
      BY <1>13
    <3> QED
      BY <3>1, <2>3, <1>6, <1>9
  <2>4. ~ (b \in 1..(i - 1) /\ a \in i..M)
    BY <1>5, <1>13
  <2> QED
    BY <2>1, <2>2, <2>3, <2>4, <1>8
<1>14. LeafOK(g, new)
  <2>1. Ascends(new.keys)
    BY <1>9, <1>13 DEF Ascends
  <2> QED
    BY <2>1, <1>9, <1>10, <1>11, <1>12 DEF LeafOK
<1> DEFINE N(j) == <<new.keys[j], ResolveValue(g, new.vals[j])>>
           O(j) == <<n.keys[j], ResolveValue(g, n.vals[j])>>
<1>15. {N(j) : j \in 1..M} = {x \in {O(j) : j \in 1..L} : x[1] # k}
  <2>1. \A j \in 1..(i - 1) : N(j) = O(j)
    BY <1>9, <1>10
  <2>2. \A j \in i..M : N(j) = O(j + 1)
    BY <1>9, <1>10
  <2>3. \A j \in 1..L : j # i => O(j)[1] # k
    <3>1. \A j \in 1..L : j # i => n.keys[j] # k
      BY <1>3, <1>5, <1>6
    <3> QED
      BY <3>1
  <2>4. O(i)[1] = k
    BY <1>5
  <2> HIDE DEF N, O
  <2>5. ASSUME NEW j \in 1..M PROVE \E l \in 1..L : l # i /\ N(j) = O(l)
    <3>1. CASE j \in 1..(i - 1)
      <4>1. j \in 1..L /\ j # i
        BY <3>1, <1>8
      <4> QED
        BY <3>1, <4>1, <2>1
    <3>2. CASE j \in i..M
      <4>1. j + 1 \in 1..L /\ j + 1 # i
        BY <3>2, <1>8, <1>5
      <4> QED
        BY <3>2, <4>1, <2>2
    <3> QED
      BY <3>1, <3>2, <1>8
  <2>6. ASSUME NEW l \in 1..L, l # i PROVE \E j \in 1..M : N(j) = O(l)
    <3>1. CASE l \in 1..(i - 1)
      BY <3>1, <2>1, <1>8
    <3>2. CASE l - 1 \in i..M /\ (l - 1) + 1 = l
      <4>1. l - 1 \in 1..M /\ N(l - 1) = O(l)
        BY <3>2, <2>2, <1>8
      <4> QED
        BY <4>1
    <3> QED
      BY <3>1, <3>2, <2>6, <1>8
  <2>7. ASSUME NEW x \in {N(j) : j \in 1..M} PROVE x \in {y \in {O(j) : j \in 1..L} : y[1] # k}
    <3>1. PICK j \in 1..M : x = N(j)
      BY <2>7
    <3>2. PICK l \in 1..L : l # i /\ N(j) = O(l)
      BY <2>5
    <3> QED
      BY <3>1, <3>2, <2>3
  <2>8. ASSUME NEW x \in {y \in {O(j) : j \in 1..L} : y[1] # k} PROVE x \in {N(j) : j \in 1..M}
    <3>1. PICK l \in 1..L : x = O(l) /\ x[1] # k
      BY <2>8
    <3>2. l # i
      BY <3>1, <2>4
    <3>3. PICK j \in 1..M : N(j) = O(l)
      BY <3>2, <2>6
    <3> QED
      BY <3>1, <3>3
  <2> QED
    BY <2>7, <2>8
<1>16. {new.keys[j] : j \in 1..M} \subseteq {n.keys[j] : j \in 1..L}
  <2>1. ASSUME NEW j \in 1..M PROVE new.keys[j] \in {n.keys[l] : l \in 1..L}
    BY <1>8, <1>9
  <2> QED
    BY <2>1
<1>17. /\ LeafSummary(g, new).h = 0 /\ LeafSummary(g, new).e = {N(j) : j \in 1..M}
       /\ LeafSummary(g, new).ks = {new.keys[j] : j \in 1..M}
       /\ LeafSummary(g, n).e = {O(j) : j \in 1..L} /\ LeafSummary(g, n).ks = {n.keys[j] : j \in 1..L}
  BY <1>2, <1>9 DEF LeafSummary
<1>18. \E x \in LeafSummary(g, n).e : x[1] = k
  <2>1. O(i)[1] = k /\ O(i) \in {O(j) : j \in 1..L}
    BY <1>5
  <2> HIDE DEF O
  <2> QED
    BY <2>1, <1>17
<1>19. LeafSummary(g, new).e = {x \in LeafSummary(g, n).e : x[1] # k} /\ LeafSummary(g, new).ks \subseteq LeafSummary(g, n).ks
  <2> HIDE DEF N, O
  <2> QED
    BY <1>15, <1>16, <1>17
<1>20. Len(new.keys) = Len(n.keys) - 1 /\ Len(n.keys) \in Nat
  BY <1>2, <1>7, <1>9
<1> QED
  BY <1>11, <1>14, <1>17, <1>18, <1>19, <1>20 DEF LeafWithout

-----------------------------------------------------------------------------
(* Joining two neighbours.                                                 *)

\* Two neighbours, with the key between them.
ToJoin(f, w, l, r, sep) ==
  /\ f \in Seq(Records) /\ \A q \in Nodes(f) : SummaryOK(w[q])
  /\ RecordOK(f, w, l) /\ RecordOK(f, w, r) /\ Summary(f, w, l).h = Summary(f, w, r).h
  /\ sep \in Keys
  /\ \A k \in Summary(f, w, l).ks : k < sep
  /\ \A k \in Summary(f, w, r).ks : sep <= k
  /\ Tailed(w, l)

IsJoin(f, w, l, r, sep, n) ==
  /\ RecordOK(f, w, n) /\ n.kind = l.kind
  /\ Summary(f, w, n).h = Summary(f, w, l).h
  /\ Summary(f, w, n).e = Summary(f, w, l).e \cup Summary(f, w, r).e
  /\ Summary(f, w, n).ks \subseteq Summary(f, w, l).ks \cup Summary(f, w, r).ks \cup {sep}
  /\ Len(n.keys) = Len(l.keys) + Len(r.keys) + (IF l.kind = "leaf" THEN 0 ELSE 1)
  /\ KidsFilled(f, l) /\ KidsFilled(f, r) => KidsFilled(f, n)
  /\ (Len(l.keys) >= MinKeys \/ Len(r.keys) >= MinKeys) /\ Tailed(w, r) => Summary(f, w, n).solid

\* The elements of two sequences in one.
Joins(L, R, x, y, z) ==
  /\ \A j \in 1..L : z[j] = x[j]
  /\ \A j \in 1..R : z[L + j] = y[j]

LEMMA JoinPlace ==
  ASSUME NEW L \in Nat, NEW R \in Nat
  PROVE  /\ \A j \in 1..(L + R) : j \in 1..L \/ (j - L \in 1..R /\ L + (j - L) = j /\ ~ (j <= L))
         /\ \A j \in 1..L : j \in 1..(L + R)
         /\ \A j \in 1..R : L + j \in 1..(L + R)
         /\ L + R \in Nat
  OBVIOUS

JoinedSets(L, R, x, y, z) == {z[j] : j \in 1..(L + R)} = {x[j] : j \in 1..L} \cup {y[j] : j \in 1..R}

LEMMA JoinSets ==
  ASSUME NEW L \in Nat, NEW R \in Nat, NEW x, NEW y, NEW z, Joins(L, R, x, y, z)
  PROVE  JoinedSets(L, R, x, y, z)
<1>1. ASSUME NEW j \in 1..(L + R) PROVE z[j] \in {x[i] : i \in 1..L} \cup {y[i] : i \in 1..R}
  <2>1. CASE j \in 1..L
    <3>1. z[j] = x[j]
      BY <2>1 DEF Joins
    <3> QED
      BY <2>1, <3>1
  <2>2. CASE j - L \in 1..R /\ L + (j - L) = j
    <3>1. z[L + (j - L)] = y[j - L]
      BY <2>2 DEF Joins
    <3>2. z[j] = y[j - L]
      BY <2>2, <3>1
    <3> QED
      BY <2>2, <3>2
  <2> QED
    BY <2>1, <2>2, JoinPlace
<1>2. ASSUME NEW j \in 1..L PROVE x[j] \in {z[i] : i \in 1..(L + R)}
  <2>1. z[j] = x[j] /\ j \in 1..(L + R)
    BY DEF Joins
  <2> QED
    BY <2>1
<1>3. ASSUME NEW j \in 1..R PROVE y[j] \in {z[i] : i \in 1..(L + R)}
  <2>1. z[L + j] = y[j] /\ L + j \in 1..(L + R)
    BY DEF Joins
  <2> QED
    BY <2>1
<1> QED
  BY <1>1, <1>2, <1>3 DEF JoinedSets

LEMMA JoinAscends ==
  ASSUME NEW L \in Nat, NEW R \in Nat, NEW x, NEW y, NEW z, Joins(L, R, x, y, z),
         \A a, b \in 1..L : a < b => x[a] < x[b], \A a, b \in 1..R : a < b => y[a] < y[b],
         \A a \in 1..L, b \in 1..R : x[a] < y[b]
  PROVE  \A a, b \in 1..(L + R) : a < b => z[a] < z[b]
<1> SUFFICES ASSUME NEW a \in 1..(L + R), NEW b \in 1..(L + R), a < b PROVE z[a] < z[b]
  OBVIOUS
<1>1. CASE a \in 1..L /\ b \in 1..L
  BY <1>1 DEF Joins
<1>2. CASE a \in 1..L /\ b - L \in 1..R /\ L + (b - L) = b
  <2>1. z[L + (b - L)] = y[b - L] /\ z[a] = x[a]
    BY <1>2 DEF Joins
  <2>2. x[a] < y[b - L]
    BY <1>2
  <2> QED
    BY <1>2, <2>1, <2>2
<1>3. CASE a - L \in 1..R /\ L + (a - L) = a /\ b - L \in 1..R /\ L + (b - L) = b
  <2>1. z[L + (b - L)] = y[b - L] /\ z[L + (a - L)] = y[a - L]
    BY <1>3 DEF Joins
  <2>2. a - L < b - L
    OBVIOUS
  <2>3. y[a - L] < y[b - L]
    BY <1>3, <2>2
  <2> QED
    BY <1>3, <2>1, <2>3
<1>4. ~ (b \in 1..L /\ a - L \in 1..R)
  OBVIOUS
<1> QED
  BY <1>1, <1>2, <1>3, <1>4, JoinPlace

Concatenated(S, a, b, L, R, c) ==
  a \in Seq(S) /\ b \in Seq(S) /\ L = Len(a) /\ R = Len(b) /\ c = a \o b

LEMMA ConcatJoins ==
  ASSUME NEW S, NEW a, NEW b, NEW L, NEW R, NEW c, Concatenated(S, a, b, L, R, c)
  PROVE  c \in Seq(S) /\ Len(c) = L + R /\ Joins(L, R, a, b, c)
<1>1. a \in Seq(S) /\ b \in Seq(S) /\ c = a \o b /\ L = Len(a) /\ R = Len(b)
  BY DEF Concatenated
<1>2. /\ a \o b \in Seq(S) /\ Len(a \o b) = Len(a) + Len(b)
      /\ \A i \in 1..Len(a) : (a \o b)[i] = a[i]
      /\ \A i \in 1..Len(b) : (a \o b)[Len(a) + i] = b[i]
  <2> HIDE <1>1
  <2>1. a \in Seq(S) /\ b \in Seq(S)
    BY <1>1
  <2> QED
    BY <2>1
<1> QED
  BY <1>1, <1>2 DEF Joins

\* Two neighbouring leaves in one are in order.
LEMMA JoinLeaves ==
  ASSUME NEW f, NEW w, NEW l, NEW r, NEW sep, ToJoin(f, w, l, r, sep), l.kind = "leaf"
  PROVE  IsJoin(f, w, l, r, sep, Joined(l, r, sep))
<1>1. /\ f \in Seq(Records) /\ RecordOK(f, w, l) /\ RecordOK(f, w, r) /\ sep \in Nat
      /\ \A q \in Nodes(f) : SummaryOK(w[q])
      /\ Summary(f, w, l).h = Summary(f, w, r).h
  BY MapAssumption DEF ToJoin, Keys
<1>2. r.kind = "leaf"
  BY <1>1, HeightIs
<1>3. LeafOK(f, l) /\ LeafOK(f, r)
  BY <1>1, <1>2, RecordKinds DEF RecordOK, NodeOK
<1>4. /\ l.keys \in Seq(Keys) /\ l.vals \in Seq(Refs) /\ Len(l.vals) = Len(l.keys) /\ Len(l.keys) \in Nat
      /\ Ascends(l.keys)
      /\ \A j \in 1..Len(l.vals) : l.vals[j][1] = "at" => l.vals[j][2] \in 1..Len(f) /\ f[l.vals[j][2]] \in ValueRecords
      /\ r.keys \in Seq(Keys) /\ r.vals \in Seq(Refs) /\ Len(r.vals) = Len(r.keys) /\ Len(r.keys) \in Nat
      /\ Ascends(r.keys)
      /\ \A j \in 1..Len(r.vals) : r.vals[j][1] = "at" => r.vals[j][2] \in 1..Len(f) /\ f[r.vals[j][2]] \in ValueRecords
  BY <1>3, RecordKinds DEF LeafOK
<1>5. PICK L \in Nat, R \in Nat : L = Len(l.keys) /\ R = Len(r.keys)
  BY <1>4
<1>6. PICK n : n = Joined(l, r, sep)
  OBVIOUS
<1>7. n = Leaf(l.keys \o r.keys, l.vals \o r.vals)
  BY <1>6 DEF Joined
<1>8. /\ n.kind = "leaf" /\ n.keys = l.keys \o r.keys /\ n.vals = l.vals \o r.vals
      /\ n = [kind |-> "leaf", keys |-> n.keys, vals |-> n.vals]
  BY <1>7 DEF Leaf
<1>9. n.keys \in Seq(Keys) /\ Len(n.keys) = L + R /\ Joins(L, R, l.keys, r.keys, n.keys)
  <2>1. Concatenated(Keys, l.keys, r.keys, L, R, n.keys)
    BY <1>4, <1>5, <1>8 DEF Concatenated
  <2> QED
    BY <2>1, ConcatJoins
<1>10. n.vals \in Seq(Refs) /\ Len(n.vals) = L + R /\ Joins(L, R, l.vals, r.vals, n.vals)
  <2>1. Concatenated(Refs, l.vals, r.vals, L, R, n.vals)
    BY <1>4, <1>5, <1>8 DEF Concatenated
  <2> QED
    BY <2>1, ConcatJoins
<1>11. n \in LeafRecords
  BY <1>8, <1>9, <1>10 DEF LeafRecords
<1>12. \A j \in 1..(L + R) : n.vals[j][1] = "at" => n.vals[j][2] \in 1..Len(f) /\ f[n.vals[j][2]] \in ValueRecords
  <2> DEFINE Z == {x \in Refs : x[1] = "at" => x[2] \in 1..Len(f) /\ f[x[2]] \in ValueRecords}
  <2>0. L = Len(l.vals) /\ R = Len(r.vals)
    BY <1>4, <1>5
  <2>4. (\A j \in 1..L : l.vals[j] \in Refs) /\ (\A j \in 1..R : r.vals[j] \in Refs)
    BY <2>0, <1>4
  <2>5. /\ \A j \in 1..L : l.vals[j][1] = "at" => l.vals[j][2] \in 1..Len(f) /\ f[l.vals[j][2]] \in ValueRecords
        /\ \A j \in 1..R : r.vals[j][1] = "at" => r.vals[j][2] \in 1..Len(f) /\ f[r.vals[j][2]] \in ValueRecords
    BY <2>0, <1>4, Zenon
  <2>1. (\A j \in 1..L : l.vals[j] \in Z) /\ (\A j \in 1..R : r.vals[j] \in Z)
    BY <2>4, <2>5
  <2>2. JoinedSets(L, R, l.vals, r.vals, n.vals)
    BY <1>10, JoinSets
  <2>3. \A j \in 1..(L + R) : n.vals[j] \in Z
    <3> HIDE DEF Z
    <3>1. \A j \in 1..(L + R) : n.vals[j] \in {l.vals[i] : i \in 1..L} \cup {r.vals[i] : i \in 1..R}
      BY <2>2 DEF JoinedSets
    <3> QED
      BY <3>1, <2>1
  <2> QED
    BY <2>3
<1>13. /\ \A a \in 1..L : l.keys[a] < sep /\ l.keys[a] \in Nat
       /\ \A a \in 1..R : sep <= r.keys[a] /\ r.keys[a] \in Nat
  <2>1. /\ \A a \in 1..L : l.keys[a] \in Summary(f, w, l).ks
        /\ \A a \in 1..R : r.keys[a] \in Summary(f, w, r).ks
    BY <1>2, <1>5 DEF Summary, LeafSummary
  <2>2. (\A a \in 1..L : l.keys[a] \in Nat) /\ (\A a \in 1..R : r.keys[a] \in Nat)
    BY <1>4, <1>5, KeyRows
  <2> QED
    BY <2>1, <2>2 DEF ToJoin
<1>14. \A a, b \in 1..(L + R) : a < b => n.keys[a] < n.keys[b]
  <2>1. \A a \in 1..L, b \in 1..R : l.keys[a] < r.keys[b]
    BY <1>1, <1>13
  <2>2. (\A a, b \in 1..L : a < b => l.keys[a] < l.keys[b]) /\ (\A a, b \in 1..R : a < b => r.keys[a] < r.keys[b])
    BY <1>4, <1>5 DEF Ascends
  <2> QED
    BY <2>1, <2>2, <1>9, JoinAscends
<1>15. LeafOK(f, n)
  <2>1. Ascends(n.keys)
    BY <1>9, <1>14 DEF Ascends
  <2> QED
    BY <2>1, <1>9, <1>10, <1>11, <1>12 DEF LeafOK
<1> DEFINE x == [j \in 1..L |-> <<l.keys[j], ResolveValue(f, l.vals[j])>>]
           y == [j \in 1..R |-> <<r.keys[j], ResolveValue(f, r.vals[j])>>]
           z == [j \in 1..(L + R) |-> <<n.keys[j], ResolveValue(f, n.vals[j])>>]
<1>16. Joins(L, R, x, y, z)
  <2>1. ASSUME NEW j \in 1..L PROVE z[j] = x[j]
    <3>1. n.keys[j] = l.keys[j] /\ n.vals[j] = l.vals[j] /\ j \in 1..(L + R)
      BY <1>9, <1>10, JoinPlace DEF Joins
    <3> QED
      BY <3>1
  <2>2. ASSUME NEW j \in 1..R PROVE z[L + j] = y[j]
    <3>1. n.keys[L + j] = r.keys[j] /\ n.vals[L + j] = r.vals[j] /\ L + j \in 1..(L + R)
      BY <1>9, <1>10, JoinPlace DEF Joins
    <3> QED
      BY <3>1
  <2> HIDE DEF x, y, z
  <2> QED
    BY <2>1, <2>2 DEF Joins
<1>17. JoinedSets(L, R, x, y, z) /\ JoinedSets(L, R, l.keys, r.keys, n.keys)
  <2> HIDE DEF x, y, z
  <2> QED
    BY <1>9, <1>16, JoinSets
<1>18. /\ Summary(f, w, n) = LeafSummary(f, n) /\ Summary(f, w, l) = LeafSummary(f, l) /\ Summary(f, w, r) = LeafSummary(f, r)
  BY <1>2, <1>8 DEF Summary
<1>19. /\ LeafSummary(f, n).e = {z[j] : j \in 1..(L + R)} /\ LeafSummary(f, n).ks = {n.keys[j] : j \in 1..(L + R)}
       /\ LeafSummary(f, l).e = {x[j] : j \in 1..L} /\ LeafSummary(f, l).ks = {l.keys[j] : j \in 1..L}
       /\ LeafSummary(f, r).e = {y[j] : j \in 1..R} /\ LeafSummary(f, r).ks = {r.keys[j] : j \in 1..R}
       /\ LeafSummary(f, n).h = 0 /\ LeafSummary(f, l).h = 0
  <2>1. LeafSummary(f, n).e = {<<n.keys[j], ResolveValue(f, n.vals[j])>> : j \in 1..(L + R)}
    BY <1>9 DEF LeafSummary
  <2>2. LeafSummary(f, l).e = {<<l.keys[j], ResolveValue(f, l.vals[j])>> : j \in 1..L}
    BY <1>5 DEF LeafSummary
  <2>3. LeafSummary(f, r).e = {<<r.keys[j], ResolveValue(f, r.vals[j])>> : j \in 1..R}
    BY <1>5 DEF LeafSummary
  <2>4. {<<n.keys[j], ResolveValue(f, n.vals[j])>> : j \in 1..(L + R)} = {z[j] : j \in 1..(L + R)}
    OBVIOUS
  <2>5. {<<l.keys[j], ResolveValue(f, l.vals[j])>> : j \in 1..L} = {x[j] : j \in 1..L}
    OBVIOUS
  <2>6. {<<r.keys[j], ResolveValue(f, r.vals[j])>> : j \in 1..R} = {y[j] : j \in 1..R}
    OBVIOUS
  <2>7. /\ LeafSummary(f, n).ks = {n.keys[j] : j \in 1..(L + R)} /\ LeafSummary(f, l).ks = {l.keys[j] : j \in 1..L}
        /\ LeafSummary(f, r).ks = {r.keys[j] : j \in 1..R}
        /\ LeafSummary(f, n).h = 0 /\ LeafSummary(f, l).h = 0
    BY <1>5, <1>9 DEF LeafSummary
  <2> QED
    BY <2>1, <2>2, <2>3, <2>4, <2>5, <2>6, <2>7, Zenon
<1>20. /\ Summary(f, w, n).e = Summary(f, w, l).e \cup Summary(f, w, r).e
       /\ Summary(f, w, n).ks \subseteq Summary(f, w, l).ks \cup Summary(f, w, r).ks \cup {sep}
       /\ Summary(f, w, n).h = Summary(f, w, l).h
  <2> HIDE DEF x, y, z
  <2> QED
    BY <1>17, <1>18, <1>19 DEF JoinedSets
<1>21. RecordOK(f, w, n) /\ KidsFilled(f, n) /\ n.kind = l.kind
  BY <1>8, <1>15 DEF RecordOK, KidsFilled
<1>22. Len(n.keys) = Len(l.keys) + Len(r.keys) + (IF l.kind = "leaf" THEN 0 ELSE 1)
  <2>1. L + R = L + R + 0
    OBVIOUS
  <2> QED
    BY <2>1, <1>5, <1>9
<1>23. Len(l.keys) >= MinKeys \/ Len(r.keys) >= MinKeys => Summary(f, w, n).solid
  <2>1. L >= MinKeys \/ R >= MinKeys => L + R >= MinKeys
    BY MinKeysIs
  <2>2. Summary(f, w, n).solid = (L + R >= MinKeys)
    BY <1>9, <1>18 DEF LeafSummary
  <2> QED
    BY <2>1, <2>2, <1>5
<1> QED
  BY <1>6, <1>20, <1>21, <1>22, <1>23 DEF IsJoin

KidsOf(f, w, l, L, M, n) ==
  \A j \in 1..(L + 1) : n.kids[M + j] = l.kids[j] /\ n.kids[M + j] \in Nodes(f) /\ w[n.kids[M + j]].h = w[l.kids[1]].h

LEMMA KidsJoined ==
  ASSUME NEW f, NEW w, NEW l, NodeOK(f, w, l), NEW L \in Nat, Len(l.keys) = L, NEW M \in Nat, NEW n,
         \A j \in 1..(L + 1) : n.kids[M + j] = l.kids[j]
  PROVE  KidsOf(f, w, l, L, M, n)
<1>1. Len(l.kids) = L + 1 /\ \A j \in 1..Len(l.kids) : l.kids[j] \in Nodes(f) /\ w[l.kids[j]].h = w[l.kids[1]].h
  BY DEF NodeOK
<1>2. \A j \in 1..(L + 1) : l.kids[j] \in Nodes(f) /\ w[l.kids[j]].h = w[l.kids[1]].h
  BY <1>1
<1>3. ASSUME NEW j \in 1..(L + 1)
      PROVE  n.kids[M + j] = l.kids[j] /\ n.kids[M + j] \in Nodes(f) /\ w[n.kids[M + j]].h = w[l.kids[1]].h
  BY <1>2
<1> QED
  BY <1>3 DEF KidsOf

LEMMA JoinedPlace ==
  ASSUME NEW L \in Nat, NEW R \in Nat
  PROVE  /\ \A j \in 1..(L + R + 2) : j \in 1..(L + 1) \/ (j - (L + 1) \in 1..(R + 1) /\ L + 1 + (j - (L + 1)) = j)
         /\ \A j \in 1..(L + R + 1) : \/ j \in 1..L
                                      \/ j = L + 1
                                      \/ j - (L + 1) \in 1..R /\ L + 1 + (j - (L + 1)) = j
         /\ \A j \in 1..(L + 1) : j \in 1..(L + R + 2)
         /\ \A j \in 1..(R + 1) : L + 1 + j \in 1..(L + R + 2)
         /\ \A j \in 1..L : j \in 1..(L + R + 1) /\ j \in 1..(L + 1)
         /\ L + 1 \in 1..(L + R + 1)
         /\ \A j \in 1..R : L + 1 + j \in 1..(L + R + 1) /\ j \in 1..(R + 1)
         /\ L + 1 \in Nat /\ R + 1 \in Nat /\ (L + 1) + R = L + R + 1 /\ (L + 1) + (R + 1) = L + R + 2
         /\ L + R + 2 = L + R + 1 + 1 /\ L + R + 1 \in Nat
  OBVIOUS

\* So are two internal nodes with the separator between them.
LEMMA JoinNodes ==
  ASSUME NEW f, NEW w, NEW l, NEW r, NEW sep, ToJoin(f, w, l, r, sep), l.kind = "node"
  PROVE  IsJoin(f, w, l, r, sep, Joined(l, r, sep))
<1>1. /\ f \in Seq(Records) /\ RecordOK(f, w, l) /\ RecordOK(f, w, r) /\ sep \in Keys /\ sep \in Nat
      /\ \A q \in Nodes(f) : SummaryOK(w[q])
      /\ Summary(f, w, l).h = Summary(f, w, r).h
      /\ \A k \in Summary(f, w, l).ks : k < sep
      /\ \A k \in Summary(f, w, r).ks : sep <= k
  BY MapAssumption DEF ToJoin, Keys
<1>2. r.kind = "node"
  BY <1>1, HeightIs
<1>3. NodeOK(f, w, l) /\ NodeOK(f, w, r)
  BY <1>1, <1>2, RecordKinds DEF RecordOK, LeafOK
<1>4. /\ l.keys \in Seq(Keys) /\ l.kids \in Seq(Nat) /\ Len(l.kids) = Len(l.keys) + 1 /\ Len(l.keys) \in Nat
      /\ Ascends(l.keys)
      /\ r.keys \in Seq(Keys) /\ r.kids \in Seq(Nat) /\ Len(r.kids) = Len(r.keys) + 1 /\ Len(r.keys) \in Nat
      /\ Ascends(r.keys)
  BY <1>3, RecordKinds DEF NodeOK
<1>5. PICK L \in Nat, R \in Nat : L = Len(l.keys) /\ R = Len(r.keys)
  BY <1>4
<1>6. PICK n : n = Joined(l, r, sep)
  OBVIOUS
<1>7. PICK a : a = l.keys \o <<sep>>
  OBVIOUS
<1>8. /\ n.kind = "node" /\ n.keys = a \o r.keys /\ n.kids = l.kids \o r.kids
      /\ n = [kind |-> "node", keys |-> n.keys, kids |-> n.kids]
  <2>1. n = Node(a \o r.keys, l.kids \o r.kids)
    BY <1>6, <1>7 DEF Joined
  <2> QED
    BY <2>1 DEF Node
<1>9. a \in Seq(Keys) /\ Len(a) = L + 1 /\ Joins(L, 1, l.keys, <<sep>>, a)
  <2>1. <<sep>> \in Seq(Keys) /\ Len(<<sep>>) = 1
    BY <1>1
  <2>2. Concatenated(Keys, l.keys, <<sep>>, L, 1, a)
    BY <2>1, <1>4, <1>5, <1>7 DEF Concatenated
  <2> QED
    BY <2>2, ConcatJoins
<1>10. n.keys \in Seq(Keys) /\ Len(n.keys) = L + 1 + R /\ Joins(L + 1, R, a, r.keys, n.keys)
  <2>2. Concatenated(Keys, a, r.keys, L + 1, R, n.keys)
    BY <1>4, <1>5, <1>8, <1>9 DEF Concatenated
  <2> QED
    BY <2>2, ConcatJoins
<1>11. n.kids \in Seq(Nat) /\ Len(n.kids) = L + 1 + (R + 1) /\ Joins(L + 1, R + 1, l.kids, r.kids, n.kids)
  <2>2. Concatenated(Nat, l.kids, r.kids, L + 1, R + 1, n.kids)
    BY <1>4, <1>5, <1>8 DEF Concatenated
  <2> QED
    BY <2>2, ConcatJoins
<1>12. n \in NodeRecords
  BY <1>8, <1>10, <1>11 DEF NodeRecords
<1>13. /\ \A j \in 1..L : n.keys[j] = l.keys[j]
       /\ n.keys[L + 1] = sep
       /\ \A j \in 1..R : n.keys[L + 1 + j] = r.keys[j]
  <2>1. \A j \in 1..L : j \in 1..(L + 1) /\ a[j] = l.keys[j]
    BY <1>9 DEF Joins
  <2>2. L + 1 \in 1..(L + 1) /\ 1 \in 1..1
    OBVIOUS
  <2>3. a[L + 1] = sep
    BY <2>2, <1>9 DEF Joins
  <2> QED
    BY <2>1, <2>2, <2>3, <1>10 DEF Joins
<1>14. /\ \A j \in 1..(L + 1) : n.kids[j] = l.kids[j] /\ n.kids[j] \in Nodes(f) /\ w[n.kids[j]].h = w[l.kids[1]].h
       /\ \A j \in 1..(R + 1) : n.kids[L + 1 + j] = r.kids[j] /\ n.kids[L + 1 + j] \in Nodes(f)
                                /\ w[n.kids[L + 1 + j]].h = w[r.kids[1]].h
  <2>1. \A j \in 1..(L + 1) : n.kids[0 + j] = l.kids[j]
    BY <1>11 DEF Joins
  <2>2. \A j \in 1..(R + 1) : n.kids[L + 1 + j] = r.kids[j]
    BY <1>11 DEF Joins
  <2>3. KidsOf(f, w, l, L, 0, n)
    BY <2>1, <1>3, <1>5, KidsJoined
  <2>4. KidsOf(f, w, r, R, L + 1, n)
    <3>1. L + 1 \in Nat
      OBVIOUS
    <3> QED
      BY <3>1, <2>2, <1>3, <1>5, KidsJoined
  <2>5. \A j \in 1..(L + 1) : 0 + j = j
    OBVIOUS
  <2> QED
    BY <2>3, <2>4, <2>5 DEF KidsOf
<1>15. Summary(f, w, n) = NodeSummary(w, n) /\ Summary(f, w, l) = NodeSummary(w, l) /\ Summary(f, w, r) = NodeSummary(w, r)
  BY <1>2, <1>8 DEF Summary
<1>16. w[r.kids[1]].h = w[l.kids[1]].h
  <2>1. 1 \in 1..(L + 1) /\ 1 \in 1..(R + 1)
    OBVIOUS
  <2>2. l.kids[1] \in Nodes(f) /\ r.kids[1] \in Nodes(f)
    BY <2>1, <1>14
  <2>3. w[l.kids[1]].h \in Nat /\ w[r.kids[1]].h \in Nat
    BY <2>2, <1>1 DEF SummaryOK, Summaries
  <2>4. w[l.kids[1]].h + 1 = w[r.kids[1]].h + 1
    BY <1>1, <1>15 DEF NodeSummary
  <2> QED
    BY <2>3, <2>4
<1>17. /\ \A j \in 1..L : l.keys[j] \in Summary(f, w, l).ks /\ l.keys[j] \in Nat
       /\ \A j \in 1..R : r.keys[j] \in Summary(f, w, r).ks /\ r.keys[j] \in Nat
       /\ \A j \in 1..(L + 1) : w[l.kids[j]].ks \subseteq Summary(f, w, l).ks /\ w[l.kids[j]].ks \in SUBSET Nat
       /\ \A j \in 1..(R + 1) : w[r.kids[j]].ks \subseteq Summary(f, w, r).ks /\ w[r.kids[j]].ks \in SUBSET Nat
  <2>1. (\A j \in 1..L : l.keys[j] \in Nat) /\ (\A j \in 1..R : r.keys[j] \in Nat)
    BY <1>4, <1>5, KeyRows
  <2>2. /\ \A j \in 1..L : l.keys[j] \in NodeSummary(w, l).ks
        /\ \A j \in 1..R : r.keys[j] \in NodeSummary(w, r).ks
    BY <1>5 DEF NodeSummary
  <2>3. /\ \A j \in 1..(L + 1) : w[l.kids[j]].ks \subseteq NodeSummary(w, l).ks
        /\ \A j \in 1..(R + 1) : w[r.kids[j]].ks \subseteq NodeSummary(w, r).ks
    BY <1>4, <1>5 DEF NodeSummary
  <2>4. \A q \in Nodes(f) : w[q].ks \in SUBSET Nat
    BY <1>1, MapAssumption DEF SummaryOK, Summaries, Keys
  <2>5. /\ \A j \in 1..(L + 1) : l.kids[j] \in Nodes(f)
        /\ \A j \in 1..(R + 1) : r.kids[j] \in Nodes(f)
    BY <1>14
  <2> QED
    BY <2>1, <2>2, <2>3, <2>4, <2>5, <1>15
<1>18. \A j \in 1..R : sep < r.keys[j]
  <2> SUFFICES ASSUME NEW j \in 1..R PROVE sep < r.keys[j]
    OBVIOUS
  <2>1. j \in 1..(R + 1) /\ ~ (j < j)
    OBVIOUS
  <2>6. w[r.kids[j]].solid /\ r.kids[j] \in Nodes(f)
    BY <2>1, <1>3, <1>4, <1>5 DEF NodeOK
  <2>2. PICK k : k \in w[r.kids[j]].ks
    BY <2>6, <1>1 DEF SummaryOK
  <2>3. k < r.keys[j]
    BY <2>1, <2>2, <1>3, <1>4, <1>5 DEF NodeOK
  <2>4. k \in Summary(f, w, r).ks /\ k \in Nat
    BY <2>1, <2>2, <1>17
  <2>5. sep <= k
    BY <2>4, <1>1
  <2> QED
    BY <2>3, <2>4, <2>5, <1>1, <1>17
<1>19. Ascends(n.keys)
  <2>1. \A x, y \in 1..L : x < y => l.keys[x] < l.keys[y]
    BY <1>4, <1>5 DEF Ascends
  <2>2. \A x, y \in 1..R : x < y => r.keys[x] < r.keys[y]
    BY <1>4, <1>5 DEF Ascends
  <2>3. \A x \in 1..L : l.keys[x] < sep
    BY <1>1, <1>17
  <2>4. \A x, y \in 1..(L + 1) : x < y => a[x] < a[y]
    <3>1. \A x, y \in 1..1 : x < y => <<sep>>[x] < <<sep>>[y]
      OBVIOUS
    <3>2. \A x \in 1..L, y \in 1..1 : l.keys[x] < <<sep>>[y]
      BY <2>3
    <3> QED
      BY <3>1, <3>2, <2>1, <1>9, JoinAscends
  <2>5. \A x \in 1..(L + 1), y \in 1..R : a[x] < r.keys[y]
    <3> SUFFICES ASSUME NEW x \in 1..(L + 1), NEW y \in 1..R PROVE a[x] < r.keys[y]
      OBVIOUS
    <3>1. sep < r.keys[y] /\ r.keys[y] \in Nat
      BY <1>17, <1>18
    <3>2. CASE x \in 1..L
      <4>1. a[x] = l.keys[x] /\ l.keys[x] \in Nat /\ l.keys[x] < sep
        BY <3>2, <2>3, <1>9, <1>17 DEF Joins
      <4> QED
        BY <4>1, <3>1, <1>1
    <3>3. CASE x = L + 1
      <4>1. 1 \in 1..1 /\ <<sep>>[1] = sep
        OBVIOUS
      <4>2. a[L + 1] = sep
        BY <4>1, <1>9 DEF Joins
      <4> QED
        BY <4>2, <3>1, <3>3
    <3> QED
      BY <3>2, <3>3
  <2>6. \A x, y \in 1..(L + 1 + R) : x < y => n.keys[x] < n.keys[y]
    BY <2>2, <2>4, <2>5, <1>10, JoinAscends
  <2> QED
    BY <2>6, <1>10 DEF Ascends
<1>20. L + 1 + R = L + R + 1 /\ L + 1 + (R + 1) = L + R + 2
  OBVIOUS
<1>21. \A j \in 1..(L + R + 1) : w[n.kids[j]].solid
  <2> SUFFICES ASSUME NEW j \in 1..(L + R + 1) PROVE w[n.kids[j]].solid
    OBVIOUS
  <2>1. CASE j \in 1..L
    <3>1. j \in 1..(L + 1)
      BY <2>1
    <3> QED
      BY <3>1, <2>1, <1>3, <1>5, <1>14 DEF NodeOK
  <2>2. CASE j = L + 1
    <3>1. w[l.kids[L + 1]].solid /\ L + 1 \in 1..(L + 1)
      BY <1>4, <1>5 DEF ToJoin, Tailed
    <3> QED
      BY <3>1, <2>2, <1>14
  <2>3. CASE j - (L + 1) \in 1..R /\ L + 1 + (j - (L + 1)) = j
    <3>1. j - (L + 1) \in 1..(R + 1)
      BY <2>3
    <3>2. n.kids[L + 1 + (j - (L + 1))] = r.kids[j - (L + 1)]
      BY <3>1, <1>14
    <3>3. w[r.kids[j - (L + 1)]].solid
      BY <2>3, <1>3, <1>5 DEF NodeOK
    <3> QED
      BY <3>2, <3>3, <2>3
  <2> QED
    BY <2>1, <2>2, <2>3, JoinedPlace
<1>22. \A j \in 1..(L + R + 2) : n.kids[j] \in Nodes(f) /\ w[n.kids[j]].h = w[l.kids[1]].h
  <2> SUFFICES ASSUME NEW j \in 1..(L + R + 2)
               PROVE  n.kids[j] \in Nodes(f) /\ w[n.kids[j]].h = w[l.kids[1]].h
    OBVIOUS
  <2>1. CASE j \in 1..(L + 1)
    BY <2>1, <1>14
  <2>2. CASE j - (L + 1) \in 1..(R + 1) /\ L + 1 + (j - (L + 1)) = j
    <3>1. n.kids[L + 1 + (j - (L + 1))] \in Nodes(f) /\ w[n.kids[L + 1 + (j - (L + 1))]].h = w[r.kids[1]].h
      BY <2>2, <1>14
    <3> QED
      BY <3>1, <2>2, <1>16
  <2> QED
    BY <2>1, <2>2, JoinedPlace
\* The keys of the left kids are below sep, those of the right ones not.
<1>23. ASSUME NEW i \in 1..(L + R + 2), NEW j \in 1..(L + R + 1), NEW k \in w[n.kids[i]].ks
       PROVE  IF j < i THEN n.keys[j] <= k ELSE k < n.keys[j]
  <2>1. CASE i \in 1..(L + 1)
    <3>1. n.kids[i] = l.kids[i] /\ k \in w[l.kids[i]].ks
      BY <2>1, <1>14
    <3>2. k \in Nat /\ k < sep
      BY <3>1, <2>1, <1>1, <1>17
    <3>3. CASE j \in 1..L
      BY <3>1, <3>3, <2>1, <1>3, <1>4, <1>5, <1>13 DEF NodeOK
    <3>4. CASE j = L + 1
      <4>1. ~(j < i)
        BY <3>4, <2>1
      <4> QED
        BY <4>1, <3>2, <3>4, <1>13
    <3>5. CASE j - (L + 1) \in 1..R /\ L + 1 + (j - (L + 1)) = j
      <4>1. ~(j < i)
        BY <3>5, <2>1
      <4>2. n.keys[L + 1 + (j - (L + 1))] = r.keys[j - (L + 1)]
        BY <3>5, <1>13
      <4>3. sep < r.keys[j - (L + 1)] /\ r.keys[j - (L + 1)] \in Nat
        BY <3>5, <1>17, <1>18
      <4>4. k < r.keys[j - (L + 1)]
        BY <4>3, <3>2, <1>1
      <4> QED
        BY <4>1, <4>2, <4>4, <3>5
    <3> QED
      BY <3>3, <3>4, <3>5, JoinedPlace
  <2>2. CASE i - (L + 1) \in 1..(R + 1) /\ L + 1 + (i - (L + 1)) = i
    <3>1. n.kids[L + 1 + (i - (L + 1))] = r.kids[i - (L + 1)]
      BY <2>2, <1>14
    <3>2. k \in w[r.kids[i - (L + 1)]].ks
      BY <3>1, <2>2
    <3>3. k \in Nat /\ sep <= k
      BY <3>2, <2>2, <1>1, <1>17
    <3>4. CASE j \in 1..L
      <4>1. j < i
        BY <3>4, <2>2
      <4>2. l.keys[j] < sep /\ l.keys[j] \in Nat
        BY <3>4, <1>1, <1>17
      <4>3. l.keys[j] <= k
        <5>1. sep \in Nat
          BY <1>1
        <5> HIDE <1>1
        <5> QED
          BY <5>1, <4>2, <3>3
      <4> QED
        BY <4>1, <4>3, <3>4, <1>13
    <3>5. CASE j = L + 1
      <4>1. j < i
        BY <3>5, <2>2
      <4> QED
        BY <4>1, <3>3, <3>5, <1>13
    <3>6. CASE j - (L + 1) \in 1..R /\ L + 1 + (j - (L + 1)) = j
      <4>1. n.keys[L + 1 + (j - (L + 1))] = r.keys[j - (L + 1)]
        BY <3>6, <1>13
      <4>2. IF j - (L + 1) < i - (L + 1) THEN r.keys[j - (L + 1)] <= k ELSE k < r.keys[j - (L + 1)]
        <5>1. PICK x \in 1..R, y \in 1..(R + 1) : x = j - (L + 1) /\ y = i - (L + 1)
          BY <3>6, <2>2
        <5>2. k \in w[r.kids[y]].ks /\ y \in 1..Len(r.kids) /\ x \in 1..Len(r.keys)
          BY <5>1, <3>2, <1>4, <1>5
        <5>3. IF x < y THEN r.keys[x] <= k ELSE k < r.keys[x]
          BY <5>2, <1>3 DEF NodeOK
        <5> QED
          BY <5>1, <5>3
      <4>3. j - (L + 1) < i - (L + 1) <=> j < i
        OBVIOUS
      <4> QED
        BY <4>1, <4>2, <4>3, <3>6
    <3> QED
      BY <3>4, <3>5, <3>6, JoinedPlace
  <2> QED
    BY <2>1, <2>2, JoinedPlace
<1>24. NodeOK(f, w, n)
  <2>1. Len(n.keys) = L + R + 1 /\ Len(n.kids) = L + R + 2 /\ Len(n.kids) = Len(n.keys) + 1
    BY <1>10, <1>11, <1>20
  <2>2. \A j \in 1..(L + R + 2) : w[n.kids[j]].h = w[n.kids[1]].h
    <3>1. 1 \in 1..(L + R + 2)
      OBVIOUS
    <3> QED
      BY <3>1, <1>22
  <2> QED
    BY <2>1, <2>2, <1>12, <1>19, <1>21, <1>22, <1>23 DEF NodeOK
<1> DEFINE xk == [j \in 1..(L + 1) |-> w[l.kids[j]].ks]
           yk == [j \in 1..(R + 1) |-> w[r.kids[j]].ks]
           zk == [j \in 1..(L + 1 + (R + 1)) |-> w[n.kids[j]].ks]
           xe == [j \in 1..(L + 1) |-> w[l.kids[j]].e]
           ye == [j \in 1..(R + 1) |-> w[r.kids[j]].e]
           ze == [j \in 1..(L + 1 + (R + 1)) |-> w[n.kids[j]].e]
<1>25. Joins(L + 1, R + 1, xk, yk, zk) /\ Joins(L + 1, R + 1, xe, ye, ze)
  <2>0. L + 1 \in Nat /\ R + 1 \in Nat
    OBVIOUS
  <2>1. ASSUME NEW j \in 1..(L + 1) PROVE zk[j] = xk[j] /\ ze[j] = xe[j]
    <3>1. n.kids[j] = l.kids[j] /\ j \in 1..(L + 1 + (R + 1))
      BY <2>0, <1>14
    <3> QED
      BY <3>1
  <2>2. ASSUME NEW j \in 1..(R + 1) PROVE zk[L + 1 + j] = yk[j] /\ ze[L + 1 + j] = ye[j]
    <3>1. n.kids[L + 1 + j] = r.kids[j] /\ L + 1 + j \in 1..(L + 1 + (R + 1))
      BY <2>0, <1>14
    <3> QED
      BY <3>1
  <2> HIDE DEF xk, yk, zk, xe, ye, ze
  <2> QED
    BY <2>1, <2>2 DEF Joins
<1>26. JoinedSets(L + 1, R + 1, xk, yk, zk) /\ JoinedSets(L + 1, R + 1, xe, ye, ze)
       /\ JoinedSets(L, 1, l.keys, <<sep>>, a) /\ JoinedSets(L + 1, R, a, r.keys, n.keys)
  <2>0. L + 1 \in Nat /\ R + 1 \in Nat /\ 1 \in Nat
    OBVIOUS
  <2> HIDE DEF xk, yk, zk, xe, ye, ze
  <2> QED
    BY <2>0, <1>9, <1>10, <1>25, JoinSets
<1> DEFINE XK == {w[l.kids[j]].ks : j \in 1..(L + 1)}
           YK == {w[r.kids[j]].ks : j \in 1..(R + 1)}
           ZK == {w[n.kids[j]].ks : j \in 1..(L + 1 + (R + 1))}
           XE == {w[l.kids[j]].e : j \in 1..(L + 1)}
           YE == {w[r.kids[j]].e : j \in 1..(R + 1)}
           ZE == {w[n.kids[j]].e : j \in 1..(L + 1 + (R + 1))}
           LK == {l.keys[j] : j \in 1..L}
           RK == {r.keys[j] : j \in 1..R}
           NK == {n.keys[j] : j \in 1..(L + 1 + R)}
<1>27. ZK = XK \cup YK /\ ZE = XE \cup YE
  <2>1. {zk[j] : j \in 1..(L + 1 + (R + 1))} = ZK /\ {xk[j] : j \in 1..(L + 1)} = XK /\ {yk[j] : j \in 1..(R + 1)} = YK
    OBVIOUS
  <2>2. {ze[j] : j \in 1..(L + 1 + (R + 1))} = ZE /\ {xe[j] : j \in 1..(L + 1)} = XE /\ {ye[j] : j \in 1..(R + 1)} = YE
    OBVIOUS
  <2> HIDE DEF xk, yk, zk, xe, ye, ze, XK, YK, ZK, XE, YE, ZE
  <2> QED
    BY <2>1, <2>2, <1>26 DEF JoinedSets
<1>28. NK = LK \cup {sep} \cup RK
  <2>1. {a[j] : j \in 1..(L + 1)} = LK \cup {<<sep>>[j] : j \in 1..1}
    BY <1>26 DEF JoinedSets
  <2>2. NK = {a[j] : j \in 1..(L + 1)} \cup RK
    BY <1>26 DEF JoinedSets
  <2>3. {<<sep>>[j] : j \in 1..1} = {sep}
    OBVIOUS
  <2> HIDE DEF NK, LK, RK
  <2> QED
    BY <2>1, <2>2, <2>3
<1>29. /\ Summary(f, w, n).e = UNION ZE /\ Summary(f, w, n).ks = NK \cup UNION ZK
       /\ Summary(f, w, l).e = UNION XE /\ Summary(f, w, l).ks = LK \cup UNION XK
       /\ Summary(f, w, r).e = UNION YE /\ Summary(f, w, r).ks = RK \cup UNION YK
       /\ Summary(f, w, n).h = w[n.kids[1]].h + 1 /\ Summary(f, w, l).h = w[l.kids[1]].h + 1
  <2>1. /\ NodeSummary(w, n).e = UNION ZE /\ NodeSummary(w, n).ks = NK \cup UNION ZK
        /\ NodeSummary(w, n).h = w[n.kids[1]].h + 1
    BY <1>10, <1>11 DEF NodeSummary
  <2>2. /\ NodeSummary(w, l).e = UNION XE /\ NodeSummary(w, l).ks = LK \cup UNION XK
        /\ NodeSummary(w, l).h = w[l.kids[1]].h + 1
    BY <1>4, <1>5 DEF NodeSummary
  <2>3. NodeSummary(w, r).e = UNION YE /\ NodeSummary(w, r).ks = RK \cup UNION YK
    BY <1>4, <1>5 DEF NodeSummary
  <2> HIDE DEF NK, LK, RK, XK, YK, ZK, XE, YE, ZE
  <2> QED
    BY <2>1, <2>2, <2>3, <1>15
<1>30. /\ Summary(f, w, n).e = Summary(f, w, l).e \cup Summary(f, w, r).e
       /\ Summary(f, w, n).ks \subseteq Summary(f, w, l).ks \cup Summary(f, w, r).ks \cup {sep}
       /\ Summary(f, w, n).h = Summary(f, w, l).h
  <2>1. w[n.kids[1]].h = w[l.kids[1]].h
    <3>1. 1 \in 1..(L + R + 2)
      OBVIOUS
    <3> QED
      BY <3>1, <1>22
  <2> HIDE DEF NK, LK, RK, XK, YK, ZK, XE, YE, ZE
  <2>2. (UNION ZK) = (UNION XK) \cup (UNION YK) /\ (UNION ZE) = (UNION XE) \cup (UNION YE)
    BY <1>27
  <2> QED
    BY <2>1, <2>2, <1>28, <1>29
<1>31. ASSUME KidsFilled(f, l), KidsFilled(f, r) PROVE KidsFilled(f, n)
  <2>1. /\ \A j \in 1..(L + 1) : Len(f[n.kids[j]].keys) >= MinKeys
        /\ \A j \in 1..(R + 1) : Len(f[n.kids[L + 1 + j]].keys) >= MinKeys
    <3>1. \A j \in 1..(L + 1) : Len(f[l.kids[j]].keys) >= MinKeys
      BY <1>4, <1>5, <1>31 DEF KidsFilled
    <3>2. \A j \in 1..(R + 1) : Len(f[r.kids[j]].keys) >= MinKeys
      BY <1>2, <1>4, <1>5, <1>31 DEF KidsFilled
    <3>3. /\ \A j \in 1..(L + 1) : n.kids[j] = l.kids[j]
          /\ \A j \in 1..(R + 1) : n.kids[L + 1 + j] = r.kids[j]
      BY <1>14
    <3> QED
      BY <3>1, <3>2, <3>3
  <2>2. ASSUME NEW j \in 1..(L + R + 2) PROVE Len(f[n.kids[j]].keys) >= MinKeys
    <3>1. CASE j \in 1..(L + 1)
      BY <3>1, <2>1
    <3>2. CASE j - (L + 1) \in 1..(R + 1) /\ L + 1 + (j - (L + 1)) = j
      <4>1. Len(f[n.kids[L + 1 + (j - (L + 1))]].keys) >= MinKeys
        BY <3>2, <2>1
      <4> QED
        BY <4>1, <3>2
    <3> QED
      BY <3>1, <3>2, JoinedPlace
  <2> QED
    BY <2>2, <1>11, <1>20 DEF KidsFilled
<1>32. ASSUME L >= MinKeys \/ R >= MinKeys, Tailed(w, r) PROVE Summary(f, w, n).solid
  <2>1. Len(n.keys) >= MinKeys
    <3>1. L + 1 + R >= MinKeys
      BY <1>32, MinKeysIs
    <3> QED
      BY <3>1, <1>10
  <2>2. w[r.kids[R + 1]].solid /\ R + 1 \in 1..(R + 1)
    BY <1>2, <1>4, <1>5, <1>32 DEF Tailed
  <2>3. n.kids[L + 1 + (R + 1)] = r.kids[R + 1]
    BY <2>2, <1>14
  <2>4. Tailed(w, n)
    BY <2>2, <2>3, <1>11 DEF Tailed
  <2> QED
    BY <2>1, <2>4, <1>8, SolidIs
<1>33. RecordOK(f, w, n) /\ n.kind = l.kind
  BY <1>8, <1>24 DEF RecordOK
<1>34. Len(n.keys) = Len(l.keys) + Len(r.keys) + (IF l.kind = "leaf" THEN 0 ELSE 1)
  BY <1>5, <1>10, <1>20
<1> QED
  BY <1>5, <1>6, <1>30, <1>31, <1>32, <1>33, <1>34 DEF IsJoin

LEMMA LeafSolid ==
  ASSUME NEW f, NEW w, NEW n, n.kind = "leaf"
  PROVE  (Summary(f, w, n).solid <=> Len(n.keys) >= MinKeys) /\ Tailed(w, n)
BY DEF Summary, LeafSummary, Tailed

-----------------------------------------------------------------------------
(* A child, or two, for which a node and what it is split into are put.    *)

\* What a child x, or two children joined in x, must be to take their place in n; g0 is f
\* with what was saved below them.
ChildFor(f, w, loaded, n, g0, u0, x, i, c) ==
  /\ f \in Seq(Records) /\ NodeOK(f, w, n) /\ (loaded \/ KidsFilled(f, n))
  /\ g0 \in Seq(Records) /\ Extends(f, g0) /\ TreesOK(g0, u0, loaded) /\ Agrees(f, w, u0)
  /\ RecordOK(g0, u0, x) /\ (loaded \/ KidsFilled(g0, x)) /\ Len(x.keys) <= 2 * Order - 2
  /\ loaded \/ Len(x.keys) >= MinKeys
  /\ c \in {1, 2} /\ (c = 1 => Len(x.keys) < Order)
  /\ i \in Nat /\ i >= 1 /\ i + c <= Len(n.kids) + 1
  /\ Summary(g0, u0, x).h = w[n.kids[1]].h
  /\ \A k \in Summary(g0, u0, x).ks : Inside(n, i, c, k)
  /\ i + c <= Len(n.kids) => Summary(g0, u0, x).solid

NewParent(n, g0, x, i, c) ==
  Node(Splice(n.keys, i, c - 1, Fit(x).seps), Splice(n.kids, i, c, Pointers(g0, Fit(x).halves)))

ChildTaken(f, w, loaded, n, g0, u0, x, i, c, g, u, new) ==
  /\ g \in Seq(Records) /\ Extends(f, g) /\ TreesOK(g, u, loaded) /\ Agrees(f, w, u)
  /\ NodeOK(g, u, new) /\ new.kind = "node" /\ new \in Records /\ (loaded \/ KidsFilled(g, new))
  /\ Len(new.keys) <= Len(n.keys)
  /\ Summary(g, u, new).h = Summary(f, w, n).h
  /\ Summary(g, u, new).e = (UNION {w[n.kids[j]].e : j \in 1..(i - 1)}) \cup Summary(g0, u0, x).e
                              \cup (UNION {w[n.kids[j]].e : j \in (i + c)..Len(n.kids)})
  /\ Summary(g, u, new).ks \subseteq Summary(f, w, n).ks \cup Summary(g0, u0, x).ks
  /\ (IF i + c <= Len(n.kids) THEN Tailed(w, n) ELSE Summary(g0, u0, x).solid) => Tailed(u, new)

\* The node over what x is split into is in order, and so is the file.
LEMMA ChildTakes ==
  ASSUME NEW f, NEW w, NEW loaded \in BOOLEAN, NEW n, NEW g0, NEW u0, NEW x, NEW i, NEW c,
         ChildFor(f, w, loaded, n, g0, u0, x, i, c)
  PROVE  \E u : ChildTaken(f, w, loaded, n, g0, u0, x, i, c, g0 \o Fit(x).halves, u, NewParent(n, g0, x, i, c))
<1>1. /\ f \in Seq(Records) /\ NodeOK(f, w, n) /\ (loaded \/ KidsFilled(f, n))
      /\ g0 \in Seq(Records) /\ Extends(f, g0) /\ TreesOK(g0, u0, loaded) /\ Agrees(f, w, u0)
      /\ RecordOK(g0, u0, x) /\ (loaded \/ KidsFilled(g0, x)) /\ Len(x.keys) <= 2 * Order - 2
      /\ loaded \/ Len(x.keys) >= MinKeys
      /\ c \in {1, 2} /\ (c = 1 => Len(x.keys) < Order)
      /\ i \in Nat /\ i >= 1 /\ i + c <= Len(n.kids) + 1
      /\ Summary(g0, u0, x).h = w[n.kids[1]].h
      /\ \A k \in Summary(g0, u0, x).ks : Inside(n, i, c, k)
      /\ i + c <= Len(n.kids) => Summary(g0, u0, x).solid
  BY DEF ChildFor
<1>2. \A p \in Nodes(g0) : SummaryOK(u0[p])
  BY <1>1 DEF TreesOK
<1>3. PICK m : m = Summary(g0, u0, x)
  OBVIOUS
<1>4. PICK hs, seps : hs = Fit(x).halves /\ seps = Fit(x).seps
  OBVIOUS
<1>5. /\ Halves(g0, u0, loaded, m, hs, seps)
      /\ Len(x.keys) < Order => hs = <<x>> /\ seps = <<>>
      /\ Len(x.keys) >= Order => Len(seps) = 1
  BY <1>1, <1>2, <1>3, <1>4, FitIs
<1>6. m.ks \in SUBSET Keys
  <2>1. SummaryOK(m)
    BY <1>1, <1>2, <1>3, SummaryFits
  <2> QED
    BY <2>1 DEF SummaryOK, Summaries
<1>7. PICK X \in Nat : X = Len(x.keys)
  BY <1>1, RecordKinds DEF RecordOK, LeafOK, NodeOK
<1>8. /\ Len(seps) \in {0, 1} /\ Len(hs) = Len(seps) + 1
      /\ Len(seps) = 1 => \A a \in 1..2 : Len(hs[a].keys) >= MinKeys
  BY <1>5 DEF Halves
<1>9. loaded \/ \A a \in 1..Len(hs) : Len(hs[a].keys) >= MinKeys
  <2> SUFFICES ASSUME ~loaded, NEW a \in 1..Len(hs) PROVE Len(hs[a].keys) >= MinKeys
    OBVIOUS
  <2>1. CASE X < Order
    <3>1. hs = <<x>>
      BY <2>1, <1>5, <1>7
    <3>2. a = 1 /\ hs[a] = x
      BY <3>1
    <3> QED
      BY <3>2, <1>1
  <2>2. CASE ~(X < Order)
    <3>1. Len(seps) = 1
      BY <2>2, <1>5, <1>7, OrderAssumption
    <3>2. Len(hs) = 2
      BY <3>1, <1>8
    <3>3. a \in 1..2
      BY <3>2
    <3> QED
      BY <3>1, <3>3, <1>8
  <2> QED
    BY <2>1, <2>2
<1>10. loaded \/ \A a \in 1..Len(hs) : hs[a].kind = "node" => Len(hs[a].keys) >= 1
  <2> SUFFICES ASSUME ~loaded, NEW a \in 1..Len(hs) PROVE Len(hs[a].keys) >= 1
    OBVIOUS
  <2>1. RecordOK(g0, u0, hs[a])
    BY <1>5 DEF Halves
  <2>2. Len(hs[a].keys) \in Nat
    BY <2>1, RecordShape
  <2>3. Len(hs[a].keys) >= MinKeys
    BY <1>9
  <2>4. MinKeys \in Nat /\ MinKeys >= 1 /\ 1 \in Nat
    BY MinKeysIs
  <2> QED
    BY <2>2, <2>3, <2>4, GeTrans
<1>11. PICK g, ps : g = g0 \o hs /\ ps = Pointers(g0, hs)
  OBVIOUS
<1>12. PICK u : u = Grown(g0, u0, hs)
  OBVIOUS
<1>13. Stored(g0, u0, loaded, hs, ps, g, u)
  BY <1>1, <1>5, <1>10, <1>11, <1>12, HalvesStored
<1>14. PICK new : new = Node(Splice(n.keys, i, c - 1, seps), Splice(n.kids, i, c, ps))
  OBVIOUS
<1>15. Replacement(f, w, g0, u0, g, u, loaded, n, i, c, m, hs, seps, ps, new)
  BY <1>1, <1>3, <1>5, <1>6, <1>13, <1>14 DEF Replacement
<1>16. ReplacedBy(f, w, g, u, n, i, c, m, hs, seps, new)
  BY <1>15, ReplacementIs
<1>17. /\ NodeOK(g, u, new) /\ new.kind = "node" /\ new \in Records
       /\ Len(new.keys) = Len(n.keys) - (c - 1) + Len(seps)
       /\ KidsFilled(f, n) /\ (\A a \in 1..Len(hs) : Len(hs[a].keys) >= MinKeys) => KidsFilled(g, new)
       /\ Summary(g, u, new).h = Summary(f, w, n).h
       /\ Summary(g, u, new).e = (UNION {w[n.kids[j]].e : j \in 1..(i - 1)}) \cup m.e
                                   \cup (UNION {w[n.kids[j]].e : j \in (i + c)..Len(n.kids)})
       /\ Summary(g, u, new).ks \subseteq Summary(f, w, n).ks \cup m.ks
       /\ (IF i + c <= Len(n.kids) THEN Tailed(w, n) ELSE m.solid) => Tailed(u, new)
  BY <1>16 DEF ReplacedBy
<1>18. Len(new.keys) <= Len(n.keys)
  <2>1. PICK L \in Nat : L = Len(n.keys)
    BY <1>1, RecordKinds DEF NodeOK
  <2>2. CASE c = 1
    <3>1. Len(seps) = 0
      BY <2>2, <1>1, <1>5
    <3>2. Len(new.keys) = L
      BY <3>1, <2>1, <2>2, <1>17
    <3> QED
      BY <3>2, <2>1
  <2>3. CASE c = 2
    <3>1. PICK q \in {0, 1} : q = Len(seps)
      BY <1>8
    <3>2. Len(new.keys) = L - 1 + q
      BY <3>1, <2>1, <2>3, <1>17
    <3>3. L - 1 + q <= L
      BY <3>1
    <3> QED
      BY <3>2, <3>3, <2>1
  <2> QED
    BY <2>2, <2>3, <1>1
<1>19. g \in Seq(Records) /\ TreesOK(g, u, loaded) /\ Extends(f, g) /\ Agrees(f, w, u)
  <2>1. TreesOK(g, u, loaded) /\ g \in Seq(Records) /\ Extends(g0, g) /\ Agrees(g0, u0, u)
    BY <1>13 DEF Stored
  <2> QED
    BY <2>1, <1>1, ExtendsOn
<1>20. ChildTaken(f, w, loaded, n, g0, u0, x, i, c, g, u, new)
  BY <1>1, <1>3, <1>9, <1>17, <1>18, <1>19 DEF ChildTaken
<1>21. g = g0 \o Fit(x).halves /\ new = NewParent(n, g0, x, i, c)
  BY <1>4, <1>11, <1>14 DEF NewParent
<1> QED
  BY <1>20, <1>21

-----------------------------------------------------------------------------
\* The node c.node is what is left of the one at p, in c.file with the summaries u.
Left(f, w, loaded, p, k, c, u) ==
  /\ TreesOK(c.file, u, loaded) /\ Agrees(f, w, u)
  /\ RecordOK(c.file, u, c.node) /\ (loaded \/ KidsFilled(c.file, c.node)) /\ Len(c.node.keys) < Order
  /\ Summary(c.file, u, c.node).h = w[p].h
  /\ Summary(c.file, u, c.node).e = {x \in w[p].e : x[1] # k}
  /\ Summary(c.file, u, c.node).ks \subseteq w[p].ks
  /\ w[p].solid => Tailed(u, c.node)

Deleted(f, w, loaded, p, k, c) ==
  /\ c.file \in Seq(Records) /\ Extends(f, c.file)
  /\ \E u : Left(f, w, loaded, p, k, c, u)
  /\ \E x \in w[p].e : x[1] = k

LEMMA SolidWhen ==
  ASSUME NEW f, NEW w, NEW n, RecordOK(f, w, n), Len(n.keys) >= MinKeys, Tailed(w, n)
  PROVE  Summary(f, w, n).solid
<1>1. CASE n.kind = "leaf"
  BY <1>1 DEF Summary, LeafSummary
<1>2. CASE n.kind = "node"
  BY <1>2, SolidIs
<1> QED
  BY <1>1, <1>2, RecordKinds DEF RecordOK, LeafOK, NodeOK

\* Deleting in a leaf leaves a leaf.
LEMMA LeafLeft ==
  ASSUME NEW f, NEW w, NEW loaded \in BOOLEAN, TreesOK(f, w, loaded), NEW p \in Nodes(f), f[p].kind = "leaf",
         NEW k \in Keys, k \in Range(f[p].keys)
  PROVE  Deleted(f, w, loaded, p, k, DelFromLeaf(f, f[p], k))
<1>1. /\ f \in Seq(Records) /\ w[p] = Summary(f, w, f[p]) /\ RecordOK(f, w, f[p]) /\ Len(f[p].keys) < Order
  BY DEF TreesOK, Fits
<1>2. PICK n : n = f[p]
  OBVIOUS
<1>3. LeafOK(f, n) /\ n.kind = "leaf" /\ w[p] = LeafSummary(f, n)
  BY <1>1, <1>2, RecordKinds DEF RecordOK, NodeOK, Summary
<1>4. PICK i : i = LowerBound(n.keys, k)
  OBVIOUS
<1>5. PICK new : new = Leaf(Splice(n.keys, i, 1, <<>>), Splice(n.vals, i, 1, <<>>))
  OBVIOUS
<1>6. LeafWithout(f, n, k, new)
  <2>1. RemoveFromLeaf(f, n, k, i, new)
    BY <1>1, <1>2, <1>3, <1>4, <1>5 DEF RemoveFromLeaf
  <2> QED
    BY <2>1, LeafWithoutIs
<1>7. PICK c : c = DelFromLeaf(f, f[p], k)
  OBVIOUS
<1>8. c.file = f /\ c.node = new
  BY <1>2, <1>4, <1>5, <1>7 DEF DelFromLeaf
<1>9. /\ LeafOK(f, new) /\ new.kind = "leaf" /\ Len(new.keys) = Len(n.keys) - 1 /\ Len(n.keys) \in Nat
      /\ LeafSummary(f, new).h = 0
      /\ LeafSummary(f, new).e = {x \in w[p].e : x[1] # k}
      /\ LeafSummary(f, new).ks \subseteq w[p].ks
      /\ \E x \in w[p].e : x[1] = k
  BY <1>3, <1>6 DEF LeafWithout
<1>10. Len(new.keys) < Order
  <2>1. PICK L \in Nat : L = Len(n.keys)
    BY <1>9
  <2>2. L - 1 < Order
    BY <2>1, <1>1, <1>2, OrderAssumption
  <2> QED
    BY <2>1, <2>2, <1>9
<1>11. Left(f, w, loaded, p, k, c, w)
  <2>1. RecordOK(f, w, new) /\ KidsFilled(f, new) /\ Tailed(w, new) /\ Summary(f, w, new) = LeafSummary(f, new)
    BY <1>9 DEF RecordOK, KidsFilled, Tailed, Summary
  <2>2. w[p].h = 0
    BY <1>3 DEF LeafSummary
  <2>3. Agrees(f, w, w)
    BY DEF Agrees
  <2> QED
    BY <2>1, <2>2, <2>3, <1>8, <1>9, <1>10 DEF Left
<1>12. Extends(f, f)
  <2>1. Len(f) \in Nat
    BY <1>1
  <2> QED
    BY <2>1 DEF Extends
<1>13. Deleted(f, w, loaded, p, k, c)
  BY <1>1, <1>8, <1>9, <1>11, <1>12 DEF Deleted
<1> QED
  BY <1>7, <1>13

\* The way to k leads from n, at p, to its child i, of which c is left.
DelPlace(f, w, loaded, p, k, n, i, c, u0) ==
  /\ f \in Seq(Records) /\ p \in Nodes(f) /\ n = f[p] /\ NodeOK(f, w, n) /\ n.kind = "node"
  /\ n.keys \in Seq(Keys) /\ n.kids \in Seq(Nat)
  /\ Len(n.keys) \in Nat /\ Len(n.kids) \in Nat /\ Len(n.kids) = Len(n.keys) + 1 /\ Len(n.keys) < Order
  /\ loaded \/ (KidsFilled(f, n) /\ Len(n.keys) >= 1)
  /\ \A x \in Nodes(f) : SummaryOK(w[x])
  /\ w[p] = Summary(f, w, n) /\ w[p] = NodeSummary(w, n)
  /\ TreesOK(f, w, loaded)
  /\ i \in 1..Len(n.kids) /\ n.kids[i] \in Nodes(f) /\ w[n.kids[i]].h = w[n.kids[1]].h
  /\ \A kk \in w[n.kids[i]].ks : Inside(n, i, 1, kk)
  /\ \A j \in 1..Len(n.kids) : j # i => \A x \in w[n.kids[j]].e : x[1] # k
  /\ c.file \in Seq(Records) /\ Extends(f, c.file) /\ Left(f, w, loaded, n.kids[i], k, c, u0)
  /\ Len(c.node.keys) \in Nat
  /\ \E x \in w[p].e : x[1] = k

LEMMA DelPlaceIs ==
  ASSUME NEW f, NEW w, NEW loaded \in BOOLEAN, TreesOK(f, w, loaded), NEW p \in Nodes(f), f[p].kind # "leaf",
         NEW k \in Keys, NEW i \in Nat, NEW q \in Nat, AtChild(f, p, k, i, q),
         NEW c, Deleted(f, w, loaded, q, k, c)
  PROVE  \E u0 : DelPlace(f, w, loaded, p, k, f[p], i, c, u0)
<1>1. /\ f \in Seq(Records) /\ w[p] = Summary(f, w, f[p]) /\ Fits(f, w, loaded, f[p])
      /\ \A x \in Nodes(f) : SummaryOK(w[x])
  BY DEF TreesOK
<1>2. PICK n : n = f[p]
  OBVIOUS
<1>3. /\ NodeOK(f, w, n) /\ n.kind = "node" /\ Len(n.kids) \in Nat /\ Len(n.kids) = Len(n.keys) + 1
      /\ n.kids \in Seq(Nat) /\ n.keys \in Seq(Keys) /\ Len(n.keys) \in Nat /\ Len(n.keys) < Order
      /\ loaded \/ (KidsFilled(f, n) /\ Len(n.keys) >= 1)
      /\ w[p] = NodeSummary(w, n)
  <2>1. NodeOK(f, w, n) /\ n.kind = "node" /\ Len(n.kids) \in Nat /\ n.kids \in Seq(Nat)
    BY <1>2, KidsBelow
  <2>2. Len(n.kids) = Len(n.keys) + 1 /\ n.keys \in Seq(Keys) /\ Len(n.keys) \in Nat
    BY <2>1, RecordKinds DEF NodeOK
  <2> QED
    BY <2>1, <2>2, <1>1, <1>2 DEF Fits, Dense, Summary
<1>4. /\ i \in 1..Len(n.kids)
      /\ \A kk \in w[q].ks : Inside(n, i, 1, kk)
      /\ \A j \in 1..Len(n.kids) : j # i => \A x \in w[n.kids[j]].e : x[1] # k
  <2>1. i = UpperBound(n.keys, k) /\ q = n.kids[i]
    BY <1>2 DEF AtChild
  <2> QED
    BY <2>1, <1>1, <1>3, ChildOfKey
<1>5. q \in Nodes(f) /\ q = n.kids[i] /\ w[q].h = w[n.kids[1]].h
  BY <1>2, <1>3, <1>4 DEF NodeOK, AtChild
<1>6. c.file \in Seq(Records) /\ Extends(f, c.file) /\ \E x \in w[q].e : x[1] = k
  BY DEF Deleted
<1>7. PICK u0 : Left(f, w, loaded, q, k, c, u0)
  BY DEF Deleted
<1>8. Len(c.node.keys) \in Nat
  <2>1. RecordOK(c.file, u0, c.node)
    BY <1>7 DEF Left
  <2> QED
    BY <2>1, RecordShape
<1>9. \E x \in w[p].e : x[1] = k
  <2>1. w[p].e = UNION {w[n.kids[j]].e : j \in 1..Len(n.kids)}
    BY <1>3 DEF NodeSummary
  <2> QED
    BY <2>1, <1>4, <1>5, <1>6
<1>10. DelPlace(f, w, loaded, p, k, n, i, c, u0)
  BY <1>1, <1>2, <1>3, <1>4, <1>5, <1>6, <1>7, <1>8, <1>9 DEF DelPlace
<1> QED
  BY <1>2, <1>10

\* The record r is to be child j of n when k is deleted.
ChildNow(f, w, loaded, k, n, i, c, u0, j, r) ==
  /\ RecordOK(c.file, u0, r) /\ (loaded \/ KidsFilled(c.file, r)) /\ Len(r.keys) < Order /\ Len(r.keys) \in Nat
  /\ Summary(c.file, u0, r).h = w[n.kids[1]].h
  /\ Summary(c.file, u0, r).e = {x \in w[n.kids[j]].e : x[1] # k}
  /\ Summary(c.file, u0, r).ks \subseteq w[n.kids[j]].ks
  /\ w[n.kids[j]].solid => Tailed(u0, r)
  /\ j # i /\ (~loaded \/ w[n.kids[j]].solid) => Len(r.keys) >= MinKeys

\* It is the node that is left, or one of its siblings as it was.
LEMMA ChildNowIs ==
  ASSUME NEW f, NEW w, NEW loaded \in BOOLEAN, NEW p, NEW k, NEW n, NEW i, NEW c, NEW u0,
         DelPlace(f, w, loaded, p, k, n, i, c, u0), NEW j, j \in 1..Len(n.kids),
         NEW r, r = IF j = i THEN c.node ELSE c.file[n.kids[j]]
  PROVE  ChildNow(f, w, loaded, k, n, i, c, u0, j, r)
<1>1. CASE j = i
  BY <1>1 DEF DelPlace, Left, ChildNow
<1>2. CASE j # i
  <2>1. /\ f \in Seq(Records) /\ NodeOK(f, w, n) /\ c.file \in Seq(Records) /\ Extends(f, c.file)
        /\ TreesOK(f, w, loaded) /\ Agrees(f, w, u0) /\ n.kind = "node"
        /\ loaded \/ KidsFilled(f, n)
        /\ \A x \in w[n.kids[j]].e : x[1] # k
    BY <1>2 DEF DelPlace, Left
  <2>2. PICK q : q = n.kids[j]
    OBVIOUS
  <2>3. q \in Nodes(f) /\ w[q].h = w[n.kids[1]].h
    BY <2>1, <2>2 DEF NodeOK
  <2>4. w[q] = Summary(f, w, f[q]) /\ RecordOK(f, w, f[q]) /\ Len(f[q].keys) < Order /\ (loaded \/ KidsFilled(f, f[q]))
    BY <2>1, <2>3 DEF TreesOK, Fits, Dense
  <2>5. r = f[q]
    BY <2>1, <2>2, <2>3, <1>2, NodesGrow
  <2>6. /\ RecordOK(c.file, u0, r) /\ Summary(c.file, u0, r) = w[q]
        /\ loaded \/ KidsFilled(c.file, r)
    BY <2>1, <2>4, <2>5, RecordGrows
  <2>11. RecordOK(c.file, u0, r)
    BY <2>6
  <2>7. Len(r.keys) \in Nat /\ r.kind \in {"leaf", "node"}
    BY <2>11, RecordShape
  <2>12. Summary(c.file, u0, r).solid = w[q].solid
    BY <2>6
  <2>8. w[q].solid => (Tailed(u0, r) /\ Len(r.keys) >= MinKeys)
    <3>1. CASE r.kind = "leaf"
      BY <3>1, <2>12, LeafSolid
    <3>2. CASE r.kind = "node"
      BY <3>2, <2>12, SolidIs
    <3> QED
      BY <3>1, <3>2, <2>7
  <2>9. ~loaded => Len(r.keys) >= MinKeys
    BY <2>1, <2>2, <2>5 DEF KidsFilled
  <2>10. {x \in w[q].e : x[1] # k} = w[q].e
    BY <2>1, <2>2
  <2> QED
    BY <2>2, <2>3, <2>4, <2>5, <2>6, <2>7, <2>8, <2>9, <2>10 DEF ChildNow
<1> QED
  BY <1>1, <1>2

\* What x stands for, in place of d children of n from j on, is what they had without k.
StandsFor(f, w, p, k, n, g0, u0, x, j, d) ==
  /\ (UNION {w[n.kids[a]].e : a \in 1..(j - 1)}) \cup Summary(g0, u0, x).e
       \cup (UNION {w[n.kids[a]].e : a \in (j + d)..Len(n.kids)}) = {y \in w[p].e : y[1] # k}
  /\ Summary(g0, u0, x).ks \subseteq w[p].ks
  /\ w[p].solid => (j + d <= Len(n.kids) \/ Summary(g0, u0, x).solid)

ResultIs(r, g, new) == r.file = g /\ r.node = new

\* Then k is deleted below p.
LEMMA TakenDeleted ==
  ASSUME NEW f, NEW w, NEW loaded \in BOOLEAN, NEW p, NEW k, NEW n, NEW i, NEW c, NEW u0,
         DelPlace(f, w, loaded, p, k, n, i, c, u0), NEW x, NEW j, NEW d,
         StandsFor(f, w, p, k, n, c.file, u0, x, j, d), NEW g, NEW u, NEW new,
         ChildTaken(f, w, loaded, n, c.file, u0, x, j, d, g, u, new), NEW r, ResultIs(r, g, new)
  PROVE  Deleted(f, w, loaded, p, k, r)
<1>1. /\ w[p] = Summary(f, w, n) /\ n.kind = "node" /\ Len(n.keys) < Order /\ Len(n.keys) \in Nat
      /\ \E y \in w[p].e : y[1] = k
  BY DEF DelPlace
<1>2. /\ g \in Seq(Records) /\ Extends(f, g) /\ TreesOK(g, u, loaded) /\ Agrees(f, w, u)
      /\ NodeOK(g, u, new) /\ new.kind = "node" /\ new \in Records /\ (loaded \/ KidsFilled(g, new))
      /\ Len(new.keys) <= Len(n.keys)
      /\ Summary(g, u, new).h = Summary(f, w, n).h
      /\ Summary(g, u, new).e = (UNION {w[n.kids[a]].e : a \in 1..(j - 1)}) \cup Summary(c.file, u0, x).e
                                  \cup (UNION {w[n.kids[a]].e : a \in (j + d)..Len(n.kids)})
      /\ Summary(g, u, new).ks \subseteq Summary(f, w, n).ks \cup Summary(c.file, u0, x).ks
      /\ (IF j + d <= Len(n.kids) THEN Tailed(w, n) ELSE Summary(c.file, u0, x).solid) => Tailed(u, new)
  BY DEF ChildTaken
<1>3. Summary(g, u, new).e = {y \in w[p].e : y[1] # k} /\ Summary(g, u, new).ks \subseteq w[p].ks
  BY <1>1, <1>2 DEF StandsFor
<1>4. w[p].solid => Tailed(u, new)
  <2> SUFFICES ASSUME w[p].solid PROVE Tailed(u, new)
    OBVIOUS
  <2>1. Tailed(w, n)
    BY <1>1, SolidIs
  <2>2. j + d <= Len(n.kids) \/ Summary(c.file, u0, x).solid
    BY DEF StandsFor
  <2>3. CASE j + d <= Len(n.kids)
    BY <2>1, <2>3, <1>2
  <2>4. CASE ~(j + d <= Len(n.kids))
    BY <2>2, <2>4, <1>2
  <2> QED
    BY <2>3, <2>4
<1>5. Len(new.keys) < Order
  <2>1. RecordOK(g, u, new)
    BY <1>2 DEF RecordOK
  <2>2. PICK N \in Nat : N = Len(new.keys)
    BY <2>1, RecordShape
  <2>3. PICK L \in Nat : L = Len(n.keys)
    BY <1>1
  <2> QED
    BY <2>2, <2>3, <1>1, <1>2, OrderAssumption
<1>6. r.file = g /\ r.node = new
  BY DEF ResultIs
<1>7. Left(f, w, loaded, p, k, r, u)
  <2>1. RecordOK(g, u, new)
    BY <1>2 DEF RecordOK
  <2>2. Summary(g, u, new).h = w[p].h
    BY <1>1, <1>2
  <2> QED
    BY <2>1, <2>2, <1>2, <1>3, <1>4, <1>5, <1>6 DEF Left
<1> QED
  BY <1>1, <1>2, <1>6, <1>7 DEF Deleted

LEMMA NothingSpliced ==
  ASSUME NEW S, NEW s \in Seq(S), NEW i \in 1..(Len(s) + 1)
  PROVE  Splice(s, i, 0, <<>>) = s
<1>1. PICK L \in Nat : L = Len(s)
  OBVIOUS
<1>2. <<>> \in Seq(S) /\ Len(<<>>) = 0 /\ i + 0 <= L + 1 /\ i \in Nat /\ i >= 1 /\ L - 0 + 0 = L
  BY <1>1
<1>3. SplicedAs(S, s, <<>>, i, 0, Splice(s, i, 0, <<>>))
  BY <1>1, <1>2, SpliceIs
<1>4. PICK t : t = Splice(s, i, 0, <<>>)
  OBVIOUS
<1>5. /\ t \in Seq(S) /\ Len(t) = L
      /\ \A j \in 1..(i - 1) : t[j] = s[j]
      /\ \A j \in i..L : t[j] = s[j]
  <2>1. /\ t \in Seq(S) /\ Len(t) = L - 0 + 0
        /\ \A j \in 1..(i - 1) : t[j] = s[j]
        /\ \A j \in (i + 0)..(L - 0 + 0) : t[j] = s[j - 0 + 0]
    BY <1>1, <1>2, <1>3, <1>4 DEF SplicedAs
  <2>2. \A j \in i..L : j \in (i + 0)..(L - 0 + 0) /\ j - 0 + 0 = j
    BY <1>2
  <2> QED
    BY <2>1, <2>2, <1>2
<1>6. \A j \in 1..L : t[j] = s[j]
  <2>1. \A j \in 1..L : j \in 1..(i - 1) \/ j \in i..L
    BY <1>2
  <2> QED
    BY <2>1, <1>5
<1> QED
  BY <1>1, <1>4, <1>5, <1>6

\* A child that is not short of keys takes the place of the old one.
LEMMA LeftAlone ==
  ASSUME NEW f, NEW w, NEW loaded \in BOOLEAN, NEW p, NEW k, NEW n, NEW i, NEW c, NEW u0,
         DelPlace(f, w, loaded, p, k, n, i, c, u0), ~Underfull(c.node, n)
  PROVE  Deleted(f, w, loaded, p, k, DelFromNode(n, i, c))
<1>1. PICK x : x = c.node
  OBVIOUS
<1>2. /\ f \in Seq(Records) /\ NodeOK(f, w, n) /\ n.kind = "node"
      /\ n.keys \in Seq(Keys) /\ n.kids \in Seq(Nat) /\ Len(n.kids) = Len(n.keys) + 1 /\ Len(n.keys) < Order
      /\ loaded \/ (KidsFilled(f, n) /\ Len(n.keys) >= 1)
      /\ w[p] = Summary(f, w, n) /\ w[p] = NodeSummary(w, n)
      /\ i \in 1..Len(n.kids) /\ n.kids[i] \in Nodes(f) /\ w[n.kids[i]].h = w[n.kids[1]].h
      /\ \A kk \in w[n.kids[i]].ks : Inside(n, i, 1, kk)
      /\ \A j \in 1..Len(n.kids) : j # i => \A y \in w[n.kids[j]].e : y[1] # k
      /\ c.file \in Seq(Records) /\ Extends(f, c.file)
  BY DEF DelPlace
<1>3. /\ TreesOK(c.file, u0, loaded) /\ Agrees(f, w, u0)
      /\ RecordOK(c.file, u0, x) /\ (loaded \/ KidsFilled(c.file, x)) /\ Len(x.keys) < Order
      /\ Summary(c.file, u0, x).h = w[n.kids[i]].h
      /\ Summary(c.file, u0, x).e = {y \in w[n.kids[i]].e : y[1] # k}
      /\ Summary(c.file, u0, x).ks \subseteq w[n.kids[i]].ks
      /\ w[n.kids[i]].solid => Tailed(u0, x)
  BY <1>1 DEF DelPlace, Left
<1>4. PICK L \in Nat : L = Len(n.keys)
  BY <1>2
<1>5. PICK X \in Nat : X = Len(x.keys)
  BY <1>3, RecordShape
<1>6. L >= 1 => X >= MinKeys
  <2>1. ~(X < MinKeys /\ L + 1 >= 2)
    BY <1>1, <1>2, <1>4, <1>5 DEF Underfull
  <2> QED
    BY <2>1, MinKeysIs
<1>7. i \in Nat /\ i >= 1 /\ i <= L + 1 /\ 1 \in {1, 2} /\ i \in 1..(L + 1)
  BY <1>2, <1>4
<1>8. i + 1 <= L + 1 => Summary(c.file, u0, x).solid
  <2> SUFFICES ASSUME i + 1 <= L + 1 PROVE Summary(c.file, u0, x).solid
    OBVIOUS
  <2>1. i \in 1..L /\ L >= 1
    BY <1>7
  <2>2. w[n.kids[i]].solid
    BY <2>1, <1>2, <1>4 DEF NodeOK
  <2> QED
    BY <2>1, <2>2, <1>3, <1>5, <1>6, SolidWhen
<1>9. ChildFor(f, w, loaded, n, c.file, u0, x, i, 1)
  <2>1. X <= 2 * Order - 2
    BY <1>3, <1>5, OrderAssumption
  <2>2. loaded \/ Len(x.keys) >= MinKeys
    BY <1>2, <1>4, <1>5, <1>6
  <2>3. i + 1 <= Len(n.kids) + 1
    BY <1>2, <1>4, <1>7
  <2>4. \A kk \in Summary(c.file, u0, x).ks : Inside(n, i, 1, kk)
    BY <1>2, <1>3
  <2>5. Summary(c.file, u0, x).h = w[n.kids[1]].h
    BY <1>2, <1>3
  <2>6. i + 1 <= Len(n.kids) => Summary(c.file, u0, x).solid
    BY <1>2, <1>4, <1>8
  <2> QED
    BY <2>1, <2>2, <2>3, <2>4, <2>5, <2>6, <1>2, <1>3, <1>5, <1>7 DEF ChildFor
<1>10. PICK u : ChildTaken(f, w, loaded, n, c.file, u0, x, i, 1, c.file \o Fit(x).halves, u, NewParent(n, c.file, x, i, 1))
  BY <1>9, ChildTakes
<1>11. Fit(x) = Whole(x)
  BY <1>3, <1>5, OrderAssumption DEF Fit
<1>12. x \in Records
  BY <1>3, RecordShape
<1>13. PICK r : r = DelFromNode(n, i, c)
  OBVIOUS
<1>14. r.file = Append(c.file, x) /\ r.node = Node(n.keys, Splice(n.kids, i, 1, <<Len(c.file) + 1>>))
  BY <1>1, <1>13 DEF DelFromNode
<1>15. ResultIs(r, c.file \o Fit(x).halves, NewParent(n, c.file, x, i, 1))
  <2>1. Append(c.file, x) = c.file \o <<x>>
    BY <1>2, <1>12, AppendIs
  <2>2. Fit(x).halves = <<x>> /\ Fit(x).seps = <<>>
    BY <1>11 DEF Whole
  <2>3. Pointers(c.file, <<x>>) = <<Len(c.file) + 1>>
    BY DEF Pointers
  <2>4. Splice(n.keys, i, 1 - 1, <<>>) = n.keys
    BY <1>2, <1>4, <1>7, NothingSpliced
  <2> QED
    BY <2>1, <2>2, <2>3, <2>4, <1>14 DEF ResultIs, NewParent
<1>16. StandsFor(f, w, p, k, n, c.file, u0, x, i, 1)
  <2>1. ChildEdited(w, n, i, k, {})
    <3>1. Len(n.kids) \in Nat /\ i \in 1..Len(n.kids)
      BY <1>2, <1>4
    <3>2. \A j \in 1..Len(n.kids) : j # i => \A y \in w[n.kids[j]].e : y[1] # k
      BY <1>2
    <3> QED
      BY <3>1, <3>2, ChildEditedIs
  <2>2. (UNION {w[n.kids[a]].e : a \in 1..(i - 1)}) \cup Summary(c.file, u0, x).e
          \cup (UNION {w[n.kids[a]].e : a \in (i + 1)..Len(n.kids)}) = {y \in w[p].e : y[1] # k}
    BY <2>1, <1>2, <1>3 DEF ChildEdited
  <2>3. Summary(c.file, u0, x).ks \subseteq w[p].ks
    <3>1. w[p].ks = {n.keys[j] : j \in 1..Len(n.keys)} \cup UNION {w[n.kids[j]].ks : j \in 1..Len(n.kids)}
      BY <1>2 DEF NodeSummary
    <3>2. w[n.kids[i]].ks \in {w[n.kids[j]].ks : j \in 1..Len(n.kids)}
      BY <1>2
    <3>3. w[n.kids[i]].ks \subseteq w[p].ks
      BY <3>1, <3>2
    <3> QED
      BY <3>3, <1>3
  <2>4. w[p].solid => (i + 1 <= Len(n.kids) \/ Summary(c.file, u0, x).solid)
    <3> SUFFICES ASSUME w[p].solid, ~(i + 1 <= Len(n.kids)) PROVE Summary(c.file, u0, x).solid
      OBVIOUS
    <3>1. Len(n.keys) >= MinKeys /\ Tailed(w, n)
      BY <1>2, SolidIs
    <3>4. Len(n.kids) = L + 1
      BY <1>2, <1>4
    <3>5. i = L + 1
      BY <3>4, <1>7
    <3>6. L >= 1
      BY <3>1, <1>4, MinKeysIs
    <3>2. i = Len(n.kids) /\ L >= 1
      BY <3>4, <3>5, <3>6
    <3>3. w[n.kids[i]].solid
      BY <3>1, <3>2, <1>2 DEF Tailed
    <3> QED
      BY <3>2, <3>3, <1>3, <1>5, <1>6, SolidWhen
  <2> QED
    BY <2>2, <2>3, <2>4 DEF StandsFor
<1>17. Deleted(f, w, loaded, p, k, r)
  BY <1>10, <1>15, <1>16, TakenDeleted
<1> QED
  BY <1>13, <1>17

-----------------------------------------------------------------------------
(* Two children that are joined.                                           *)

PairEdited(w, n, j, k) ==
  (UNION {w[n.kids[a]].e : a \in 1..(j - 1)})
      \cup ({x \in w[n.kids[j]].e : x[1] # k} \cup {x \in w[n.kids[j + 1]].e : x[1] # k})
      \cup (UNION {w[n.kids[a]].e : a \in (j + 2)..Len(n.kids)})
    = {x \in NodeSummary(w, n).e : x[1] # k}

\* Only one of the two had entries under k.
LEMMA PairEditedIs ==
  ASSUME NEW w, NEW n, NEW K \in Nat, Len(n.kids) = K, NEW k, NEW j \in Nat, j >= 1, j + 1 <= K,
         \A a \in 1..K : a # j /\ a # j + 1 => \A x \in w[n.kids[a]].e : x[1] # k
  PROVE  PairEdited(w, n, j, k)
<1> DEFINE E(a) == w[n.kids[a]].e
           l == UNION {E(a) : a \in 1..(j - 1)}
           m == {x \in E(j) : x[1] # k} \cup {x \in E(j + 1) : x[1] # k}
           r == UNION {E(a) : a \in (j + 2)..K}
           all == UNION {E(a) : a \in 1..K}
<1>1. /\ \A a \in 1..(j - 1) : a \in 1..K /\ a # j /\ a # j + 1
      /\ \A a \in (j + 2)..K : a \in 1..K /\ a # j /\ a # j + 1
      /\ \A a \in 1..K : a \in 1..(j - 1) \/ a = j \/ a = j + 1 \/ a \in (j + 2)..K
      /\ j \in 1..K /\ j + 1 \in 1..K
  OBVIOUS
<1>2. \A a \in 1..K : a # j /\ a # j + 1 => \A x \in E(a) : x[1] # k
  OBVIOUS
<1>3. /\ l = UNION {E(a) : a \in 1..(j - 1)} /\ r = UNION {E(a) : a \in (j + 2)..K} /\ all = UNION {E(a) : a \in 1..K}
      /\ m = {x \in E(j) : x[1] # k} \cup {x \in E(j + 1) : x[1] # k}
  OBVIOUS
<1> HIDE DEF E, l, m, r, all
<1>4. ASSUME NEW x \in l \cup m \cup r PROVE x \in {y \in all : y[1] # k}
  <2>1. CASE x \in l
    <3>1. PICK a \in 1..(j - 1) : x \in E(a)
      BY <2>1, <1>3
    <3> QED
      BY <3>1, <1>1, <1>2, <1>3
  <2>2. CASE x \in m
    BY <2>2, <1>1, <1>3
  <2>3. CASE x \in r
    <3>1. PICK a \in (j + 2)..K : x \in E(a)
      BY <2>3, <1>3
    <3> QED
      BY <3>1, <1>1, <1>2, <1>3
  <2> QED
    BY <2>1, <2>2, <2>3, <1>4
<1>5. ASSUME NEW x \in {y \in all : y[1] # k} PROVE x \in l \cup m \cup r
  <2>1. PICK a \in 1..K : x \in E(a)
    BY <1>5, <1>3
  <2>2. CASE a = j \/ a = j + 1
    BY <2>1, <2>2, <1>5, <1>3
  <2>3. CASE a \in 1..(j - 1)
    BY <2>1, <2>3, <1>3
  <2>4. CASE a \in (j + 2)..K
    BY <2>1, <2>4, <1>3
  <2> QED
    BY <2>2, <2>3, <2>4, <1>1
<1>6. l \cup m \cup r = {y \in all : y[1] # k}
  BY <1>4, <1>5
<1> QED
  BY <1>6 DEF l, m, r, all, E, PairEdited, NodeSummary

\* One of the children j and j + 1 is short of keys, the one the key was deleted below.
ShortPair(f, w, loaded, p, k, n, i, c, u0, j, l, r) ==
  /\ DelPlace(f, w, loaded, p, k, n, i, c, u0) /\ Len(c.node.keys) < MinKeys
  /\ j \in 1..Len(n.keys) /\ i \in {j, j + 1}
  /\ ChildNow(f, w, loaded, k, n, i, c, u0, j, l) /\ ChildNow(f, w, loaded, k, n, i, c, u0, j + 1, r)
  /\ IF i = j THEN l = c.node ELSE r = c.node

LEMMA ShortLengths ==
  ASSUME NEW X \in Nat, NEW Y \in Nat, X < MinKeys, Y < Order, NEW z \in {0, 1}
  PROVE  X + Y + z <= 2 * Order - 2 /\ Y + X + z <= 2 * Order - 2 /\ (Y >= MinKeys => X + Y + z >= MinKeys /\ Y + X + z >= MinKeys)
BY MinKeysIs, OrderAssumption

\* Of two children the one that is not short of keys.
LEMMA JoinSolid ==
  ASSUME NEW f, NEW w, NEW loaded \in BOOLEAN, NEW p, NEW k, NEW n, NEW i, NEW c, NEW u0, NEW j, NEW l, NEW r,
         ShortPair(f, w, loaded, p, k, n, i, c, u0, j, l, r)
  PROVE  /\ ~loaded => Len(l.keys) >= MinKeys \/ Len(r.keys) >= MinKeys
         /\ w[n.kids[j + 1]].solid => (Len(l.keys) >= MinKeys \/ Len(r.keys) >= MinKeys) /\ Tailed(u0, r)
         /\ Tailed(u0, l)
         /\ j \in Nat /\ (i # j => i = j + 1)
<1>1. /\ NodeOK(f, w, n) /\ j \in 1..Len(n.keys) /\ i \in {j, j + 1} /\ Len(n.keys) \in Nat
      /\ ChildNow(f, w, loaded, k, n, i, c, u0, j, l) /\ ChildNow(f, w, loaded, k, n, i, c, u0, j + 1, r)
  BY DEF ShortPair, DelPlace
<1>2. w[n.kids[j]].solid
  BY <1>1 DEF NodeOK
<1>3. j \in Nat /\ j # j + 1
  BY <1>1
<1>4. /\ Tailed(u0, l) /\ (j # i => Len(l.keys) >= MinKeys)
  BY <1>1, <1>2 DEF ChildNow
<1>5. /\ w[n.kids[j + 1]].solid => Tailed(u0, r)
      /\ j + 1 # i /\ (~loaded \/ w[n.kids[j + 1]].solid) => Len(r.keys) >= MinKeys
  BY <1>1 DEF ChildNow
<1>6. j # i \/ j + 1 # i
  BY <1>3
<1> QED
  BY <1>1, <1>3, <1>4, <1>5, <1>6

\* Their keys are on either side of the separator, and where the pair is among the
\* children of n.
LEMMA PairKeys ==
  ASSUME NEW f, NEW w, NEW n, NodeOK(f, w, n), NEW j \in 1..Len(n.keys)
  PROVE  /\ \A kk \in w[n.kids[j]].ks : kk < n.keys[j] /\ Inside(n, j, 2, kk)
         /\ \A kk \in w[n.kids[j + 1]].ks : n.keys[j] <= kk /\ Inside(n, j, 2, kk)
         /\ Inside(n, j, 2, n.keys[j]) /\ n.keys[j] \in Keys
<1>1. /\ n.keys \in Seq(Keys) /\ Len(n.kids) = Len(n.keys) + 1
      /\ \A a \in 1..Len(n.kids), b \in 1..Len(n.keys) : \A kk \in w[n.kids[a]].ks :
           IF b < a THEN n.keys[b] <= kk ELSE kk < n.keys[b]
      /\ \A a, b \in 1..Len(n.keys) : a < b => n.keys[a] < n.keys[b]
  BY RecordKinds DEF NodeOK, Ascends
<1>2. PICK L \in Nat : L = Len(n.keys)
  BY <1>1
<1>3. \A a \in 1..L : n.keys[a] \in Nat /\ n.keys[a] \in Keys
  BY <1>1, <1>2, KeyRows
<1>4. /\ j \in 1..L /\ j \in 1..(L + 1) /\ j + 1 \in 1..(L + 1) /\ ~(j < j) /\ j < j + 1
      /\ \A b \in 1..(j - 1) : b \in 1..L /\ b < j /\ b < j + 1
      /\ \A b \in (j + 2 - 1)..L : b \in 1..L /\ ~(b < j) /\ ~(b < j + 1) /\ j < b
  BY <1>2
<1>5. \A a \in 1..(L + 1), b \in 1..L : \A kk \in w[n.kids[a]].ks : IF b < a THEN n.keys[b] <= kk ELSE kk < n.keys[b]
  BY <1>1, <1>2
<1>6. ASSUME NEW kk \in w[n.kids[j]].ks PROVE kk < n.keys[j] /\ Inside(n, j, 2, kk)
  BY <1>2, <1>4, <1>5 DEF Inside
<1>7. ASSUME NEW kk \in w[n.kids[j + 1]].ks PROVE n.keys[j] <= kk /\ Inside(n, j, 2, kk)
  BY <1>2, <1>4, <1>5 DEF Inside
<1>8. Inside(n, j, 2, n.keys[j])
  BY <1>1, <1>2, <1>3, <1>4 DEF Inside
<1> QED
  BY <1>2, <1>3, <1>4, <1>6, <1>7, <1>8

\* They can be joined.
LEMMA PairJoins ==
  ASSUME NEW f, NEW w, NEW loaded \in BOOLEAN, NEW p, NEW k, NEW n, NEW i, NEW c, NEW u0, NEW j, NEW l, NEW r,
         ShortPair(f, w, loaded, p, k, n, i, c, u0, j, l, r)
  PROVE  IsJoin(c.file, u0, l, r, n.keys[j], Joined(l, r, n.keys[j]))
<1>1. /\ NodeOK(f, w, n) /\ j \in 1..Len(n.keys)
      /\ ChildNow(f, w, loaded, k, n, i, c, u0, j, l) /\ ChildNow(f, w, loaded, k, n, i, c, u0, j + 1, r)
      /\ c.file \in Seq(Records) /\ TreesOK(c.file, u0, loaded)
  BY DEF ShortPair, DelPlace, Left
<1>2. PICK sep : sep = n.keys[j]
  OBVIOUS
<1>3. /\ \A kk \in w[n.kids[j]].ks : kk < sep
      /\ \A kk \in w[n.kids[j + 1]].ks : sep <= kk
      /\ sep \in Keys
  BY <1>1, <1>2, PairKeys
<1>4. /\ RecordOK(c.file, u0, l) /\ Summary(c.file, u0, l).h = w[n.kids[1]].h /\ Summary(c.file, u0, l).ks \subseteq w[n.kids[j]].ks
      /\ RecordOK(c.file, u0, r) /\ Summary(c.file, u0, r).h = w[n.kids[1]].h
      /\ Summary(c.file, u0, r).ks \subseteq w[n.kids[j + 1]].ks
  BY <1>1 DEF ChildNow
<1>5. \A q \in Nodes(c.file) : SummaryOK(u0[q])
  BY <1>1 DEF TreesOK
<1>6. Tailed(u0, l)
  BY JoinSolid
<1>7. ToJoin(c.file, u0, l, r, sep)
  BY <1>1, <1>3, <1>4, <1>5, <1>6 DEF ToJoin
<1>8. l.kind \in {"leaf", "node"}
  BY <1>4, RecordShape
<1>9. CASE l.kind = "leaf"
  BY <1>2, <1>7, <1>9, JoinLeaves
<1>10. CASE l.kind = "node"
  BY <1>2, <1>7, <1>10, JoinNodes
<1> QED
  BY <1>8, <1>9, <1>10

\* Joined, and split again if need be, they take the place of the two.
LEMMA PairTaken ==
  ASSUME NEW f, NEW w, NEW loaded \in BOOLEAN, NEW p, NEW k, NEW n, NEW i, NEW c, NEW u0, NEW j, NEW l, NEW r,
         ShortPair(f, w, loaded, p, k, n, i, c, u0, j, l, r), NEW x, IsJoin(c.file, u0, l, r, n.keys[j], x)
  PROVE  ChildFor(f, w, loaded, n, c.file, u0, x, j, 2) /\ StandsFor(f, w, p, k, n, c.file, u0, x, j, 2)
<1>1. /\ f \in Seq(Records) /\ NodeOK(f, w, n) /\ n.kind = "node" /\ Len(n.kids) = Len(n.keys) + 1
      /\ Len(n.keys) \in Nat
      /\ loaded \/ (KidsFilled(f, n) /\ Len(n.keys) >= 1)
      /\ w[p] = Summary(f, w, n) /\ w[p] = NodeSummary(w, n)
      /\ \A a \in 1..Len(n.kids) : a # i => \A y \in w[n.kids[a]].e : y[1] # k
      /\ c.file \in Seq(Records) /\ Extends(f, c.file) /\ TreesOK(c.file, u0, loaded) /\ Agrees(f, w, u0)
      /\ j \in 1..Len(n.keys) /\ i \in {j, j + 1} /\ Len(c.node.keys) < MinKeys
      /\ IF i = j THEN l = c.node ELSE r = c.node
      /\ ChildNow(f, w, loaded, k, n, i, c, u0, j, l) /\ ChildNow(f, w, loaded, k, n, i, c, u0, j + 1, r)
  BY DEF ShortPair, DelPlace, Left
<1>2. /\ RecordOK(c.file, u0, l) /\ (loaded \/ KidsFilled(c.file, l)) /\ Len(l.keys) < Order /\ Len(l.keys) \in Nat
      /\ Summary(c.file, u0, l).h = w[n.kids[1]].h
      /\ Summary(c.file, u0, l).e = {y \in w[n.kids[j]].e : y[1] # k}
      /\ Summary(c.file, u0, l).ks \subseteq w[n.kids[j]].ks
      /\ (loaded \/ KidsFilled(c.file, r)) /\ Len(r.keys) < Order /\ Len(r.keys) \in Nat
      /\ Summary(c.file, u0, r).e = {y \in w[n.kids[j + 1]].e : y[1] # k}
      /\ Summary(c.file, u0, r).ks \subseteq w[n.kids[j + 1]].ks
  BY <1>1 DEF ChildNow
<1>3. PICK sep : sep = n.keys[j]
  OBVIOUS
<1>4. /\ RecordOK(c.file, u0, x)
      /\ Summary(c.file, u0, x).h = Summary(c.file, u0, l).h
      /\ Summary(c.file, u0, x).e = Summary(c.file, u0, l).e \cup Summary(c.file, u0, r).e
      /\ Summary(c.file, u0, x).ks \subseteq Summary(c.file, u0, l).ks \cup Summary(c.file, u0, r).ks \cup {sep}
      /\ Len(x.keys) = Len(l.keys) + Len(r.keys) + (IF l.kind = "leaf" THEN 0 ELSE 1)
      /\ KidsFilled(c.file, l) /\ KidsFilled(c.file, r) => KidsFilled(c.file, x)
      /\ (Len(l.keys) >= MinKeys \/ Len(r.keys) >= MinKeys) /\ Tailed(u0, r) => Summary(c.file, u0, x).solid
  BY <1>3 DEF IsJoin
<1>5. /\ ~loaded => Len(l.keys) >= MinKeys \/ Len(r.keys) >= MinKeys
      /\ w[n.kids[j + 1]].solid => Summary(c.file, u0, x).solid
      /\ j \in Nat /\ (i # j => i = j + 1)
  BY <1>4, JoinSolid
<1>6. Len(x.keys) <= 2 * Order - 2 /\ (loaded \/ Len(x.keys) >= MinKeys)
  <2>1. PICK X \in Nat, Y \in Nat : X = Len(l.keys) /\ Y = Len(r.keys)
    BY <1>2
  <2>2. PICK z \in {0, 1} : z = (IF l.kind = "leaf" THEN 0 ELSE 1)
    OBVIOUS
  <2>3. Len(x.keys) = X + Y + z /\ X < Order /\ Y < Order
    BY <1>2, <1>4, <2>1, <2>2
  <2>4. MinKeys \in Nat
    BY MinKeysIs
  <2>5. CASE i = j
    <3>1. X < MinKeys
      BY <2>1, <2>5, <1>1
    <3>2. ~loaded => Y >= MinKeys
      BY <3>1, <2>1, <2>4, <1>5
    <3> QED
      BY <3>1, <3>2, <2>3, ShortLengths
  <2>6. CASE i # j
    <3>1. Y < MinKeys
      BY <2>1, <2>6, <1>1
    <3>2. ~loaded => X >= MinKeys
      BY <3>1, <2>1, <2>4, <1>5
    <3> QED
      BY <3>1, <3>2, <2>3, ShortLengths
  <2> QED
    BY <2>5, <2>6
<1>7. PICK L \in Nat : L = Len(n.keys)
  BY <1>1
<1>8. j \in 1..L /\ j \in Nat /\ j >= 1 /\ j + 1 <= L + 1 /\ j + 2 <= L + 1 + 1 /\ (j + 2 <= L + 1 => j + 1 \in 1..L)
      /\ (~(j + 2 <= L + 1) => j + 1 = L + 1) /\ j + 1 \in 1..(L + 1) /\ j \in 1..(L + 1)
  <2>1. j \in 1..L
    BY <1>1, <1>7
  <2> QED
    BY <2>1
<1>9. \A kk \in Summary(c.file, u0, x).ks : Inside(n, j, 2, kk)
  <2>1. /\ \A kk \in w[n.kids[j]].ks : Inside(n, j, 2, kk)
        /\ \A kk \in w[n.kids[j + 1]].ks : Inside(n, j, 2, kk)
        /\ Inside(n, j, 2, sep)
    BY <1>1, <1>3, PairKeys
  <2> QED
    BY <2>1, <1>2, <1>4
<1>10. ChildFor(f, w, loaded, n, c.file, u0, x, j, 2)
  <2>1. j + 2 <= Len(n.kids) + 1
    BY <1>1, <1>7, <1>8
  <2>2. j + 2 <= Len(n.kids) => Summary(c.file, u0, x).solid
    <3> SUFFICES ASSUME j + 2 <= Len(n.kids) PROVE Summary(c.file, u0, x).solid
      OBVIOUS
    <3>1. j + 1 \in 1..Len(n.keys)
      BY <1>1, <1>7, <1>8
    <3>2. w[n.kids[j + 1]].solid
      BY <3>1, <1>1 DEF NodeOK
    <3> QED
      BY <3>2, <1>5
  <2>3. loaded \/ KidsFilled(c.file, x)
    BY <1>2, <1>4
  <2>4. Summary(c.file, u0, x).h = w[n.kids[1]].h
    BY <1>2, <1>4
  <2>5. 2 \in {1, 2} /\ (2 = 1 => Len(x.keys) < Order)
    OBVIOUS
  <2> QED
    BY <2>1, <2>2, <2>3, <2>4, <2>5, <1>1, <1>4, <1>6, <1>8, <1>9 DEF ChildFor
<1>11. StandsFor(f, w, p, k, n, c.file, u0, x, j, 2)
  <2>1. PairEdited(w, n, j, k)
    <3>1. PICK K \in Nat : K = Len(n.kids) /\ K = L + 1
      BY <1>1, <1>7
    <3>2. \A a \in 1..K : a # j /\ a # j + 1 => \A y \in w[n.kids[a]].e : y[1] # k
      BY <3>1, <1>1, <1>5
    <3> QED
      BY <3>1, <3>2, <1>8, PairEditedIs
  <2>2. Summary(c.file, u0, x).e = {y \in w[n.kids[j]].e : y[1] # k} \cup {y \in w[n.kids[j + 1]].e : y[1] # k}
    BY <1>2, <1>4
  <2>3. (UNION {w[n.kids[a]].e : a \in 1..(j - 1)}) \cup Summary(c.file, u0, x).e
          \cup (UNION {w[n.kids[a]].e : a \in (j + 2)..Len(n.kids)}) = {y \in w[p].e : y[1] # k}
    BY <2>1, <2>2, <1>1 DEF PairEdited
  <2>4. Summary(c.file, u0, x).ks \subseteq w[p].ks
    <3>1. w[p].ks = {n.keys[a] : a \in 1..L} \cup UNION {w[n.kids[a]].ks : a \in 1..(L + 1)}
      BY <1>1, <1>7 DEF NodeSummary
    <3>2. w[n.kids[j]].ks \in {w[n.kids[a]].ks : a \in 1..(L + 1)}
      BY <1>8
    <3>3. w[n.kids[j + 1]].ks \in {w[n.kids[a]].ks : a \in 1..(L + 1)}
      BY <1>8
    <3>4. sep \in {n.keys[a] : a \in 1..L}
      BY <1>3, <1>8
    <3>5. w[n.kids[j]].ks \subseteq w[p].ks /\ w[n.kids[j + 1]].ks \subseteq w[p].ks /\ sep \in w[p].ks
      BY <3>1, <3>2, <3>3, <3>4
    <3> QED
      BY <3>5, <1>2, <1>4
  <2>5. w[p].solid => (j + 2 <= Len(n.kids) \/ Summary(c.file, u0, x).solid)
    <3> SUFFICES ASSUME w[p].solid, ~(j + 2 <= Len(n.kids)) PROVE Summary(c.file, u0, x).solid
      OBVIOUS
    <3>1. Tailed(w, n)
      BY <1>1, SolidIs
    <3>2. j + 1 = Len(n.kids)
      BY <1>1, <1>7, <1>8
    <3>3. w[n.kids[j + 1]].solid
      BY <3>1, <3>2, <1>1 DEF Tailed
    <3> QED
      BY <3>3, <1>5
  <2> QED
    BY <2>3, <2>4, <2>5 DEF StandsFor
<1> QED
  BY <1>10, <1>11

LEMMA SiblingPlace ==
  ASSUME NEW L \in Nat, NEW i \in 1..(L + 1), L + 1 >= 2, NEW si, si = (IF i > 1 THEN i - 1 ELSE i + 1),
         NEW j, j = (IF si < i THEN si ELSE i)
  PROVE  /\ j \in 1..L /\ j \in 1..(L + 1) /\ j + 1 \in 1..(L + 1) /\ i \in {j, j + 1}
         /\ (si < i => j = si /\ i = j + 1 /\ i # j /\ j # i) /\ (~(si < i) => i = j /\ si = j + 1 /\ j + 1 # i)
OBVIOUS

\* Rebalancing deletes k below p.
LEMMA Rebalanced ==
  ASSUME NEW f, NEW w, NEW loaded \in BOOLEAN, NEW p, NEW k, NEW n, NEW i, NEW c, NEW u0,
         DelPlace(f, w, loaded, p, k, n, i, c, u0), Underfull(c.node, n)
  PROVE  Deleted(f, w, loaded, p, k, DelFromNode(n, i, c))
<1>1. /\ n.keys \in Seq(Keys) /\ Len(n.kids) = Len(n.keys) + 1 /\ Len(n.keys) \in Nat /\ i \in 1..Len(n.kids)
  BY DEF DelPlace
<1>2. Len(c.node.keys) < MinKeys /\ Len(n.kids) >= 2
  BY DEF Underfull
<1>3. PICK L \in Nat : L = Len(n.keys)
  BY <1>1
<1>4. PICK si : si = IF i > 1 THEN i - 1 ELSE i + 1
  OBVIOUS
<1>5. PICK j : j = IF si < i THEN si ELSE i
  OBVIOUS
<1>6. /\ j \in 1..L /\ j \in 1..(L + 1) /\ j + 1 \in 1..(L + 1) /\ i \in {j, j + 1}
      /\ (si < i => j = si /\ i = j + 1 /\ i # j /\ j # i) /\ (~(si < i) => i = j /\ si = j + 1 /\ j + 1 # i)
  <2>1. i \in 1..(L + 1) /\ L + 1 >= 2
    BY <1>1, <1>2, <1>3
  <2> QED
    BY <2>1, <1>4, <1>5, SiblingPlace
<1>7. PICK sib : sib = c.file[n.kids[si]]
  OBVIOUS
<1>8. PICK l, r : l = (IF si < i THEN sib ELSE c.node) /\ r = (IF si < i THEN c.node ELSE sib)
  OBVIOUS
<1>9. ChildNow(f, w, loaded, k, n, i, c, u0, j, l) /\ ChildNow(f, w, loaded, k, n, i, c, u0, j + 1, r)
  <2>1. l = IF j = i THEN c.node ELSE c.file[n.kids[j]]
    BY <1>6, <1>7, <1>8
  <2>2. r = IF j + 1 = i THEN c.node ELSE c.file[n.kids[j + 1]]
    BY <1>6, <1>7, <1>8
  <2>3. j \in 1..Len(n.kids) /\ j + 1 \in 1..Len(n.kids)
    BY <1>1, <1>3, <1>6
  <2>4. ChildNow(f, w, loaded, k, n, i, c, u0, j, l)
    BY <2>1, <2>3, ChildNowIs
  <2>5. ChildNow(f, w, loaded, k, n, i, c, u0, j + 1, r)
    BY <2>2, <2>3, ChildNowIs
  <2> QED
    BY <2>4, <2>5
<1>10. ShortPair(f, w, loaded, p, k, n, i, c, u0, j, l, r)
  <2>1. IF i = j THEN l = c.node ELSE r = c.node
    BY <1>6, <1>8
  <2> QED
    BY <2>1, <1>2, <1>3, <1>6, <1>9 DEF ShortPair
<1>11. PICK x : x = Joined(l, r, n.keys[j])
  OBVIOUS
<1>12. IsJoin(c.file, u0, l, r, n.keys[j], x)
  BY <1>10, <1>11, PairJoins
<1>13. ChildFor(f, w, loaded, n, c.file, u0, x, j, 2) /\ StandsFor(f, w, p, k, n, c.file, u0, x, j, 2)
  BY <1>10, <1>12, PairTaken
<1>14. PICK u : ChildTaken(f, w, loaded, n, c.file, u0, x, j, 2, c.file \o Fit(x).halves, u, NewParent(n, c.file, x, j, 2))
  BY <1>13, ChildTakes
<1>15. PICK d : d = DelFromNode(n, i, c)
  OBVIOUS
<1>16. ResultIs(d, c.file \o Fit(x).halves, NewParent(n, c.file, x, j, 2))
  <2>1. d = RebalanceChild(c.file, n, i, c.node)
    BY <1>15 DEF DelFromNode
  <2>2. x = IF si < i THEN Joined(sib, c.node, n.keys[j]) ELSE Joined(c.node, sib, n.keys[j])
    BY <1>8, <1>11
  <2>3. d = [file |-> c.file \o Fit(x).halves,
             node |-> Node(Splice(n.keys, j, 1, Fit(x).seps), Splice(n.kids, j, 2, Pointers(c.file, Fit(x).halves)))]
    <3> DEFINE pair == Fit(IF si < i THEN Joined(c.file[n.kids[si]], c.node, n.keys[j])
                           ELSE Joined(c.node, c.file[n.kids[si]], n.keys[j]))
    <3>1. d = [file |-> c.file \o pair.halves,
               node |-> Node(Splice(n.keys, j, 1, pair.seps), Splice(n.kids, j, 2, Pointers(c.file, pair.halves)))]
      BY <2>1, <1>4, <1>5, Zenon DEF RebalanceChild
    <3>2. pair = Fit(x)
      BY <2>2, <1>7
    <3> HIDE DEF pair
    <3> QED
      BY <3>1, <3>2
  <2>4. 2 - 1 = 1
    OBVIOUS
  <2> QED
    BY <2>3, <2>4 DEF ResultIs, NewParent
<1>17. Deleted(f, w, loaded, p, k, d)
  BY <1>13, <1>14, <1>16, TakenDeleted
<1> QED
  BY <1>15, <1>17

LEMMA DelFromNodeIs ==
  ASSUME NEW f, NEW w, NEW loaded \in BOOLEAN, TreesOK(f, w, loaded), NEW p \in Nodes(f), f[p].kind # "leaf",
         NEW k \in Keys, NEW i \in Nat, NEW q \in Nat, AtChild(f, p, k, i, q),
         NEW c, Deleted(f, w, loaded, q, k, c)
  PROVE  Deleted(f, w, loaded, p, k, DelFromNode(f[p], i, c))
<1>1. PICK u0 : DelPlace(f, w, loaded, p, k, f[p], i, c, u0)
  BY DelPlaceIs
<1> QED
  BY <1>1, LeftAlone, Rebalanced

\* DelNode is what its recursion says.
LEMMA DelNodeIs ==
  ASSUME NEW f, NEW w, NEW loaded, TreesOK(f, w, loaded), NEW k \in Nat,
         NEW p \in Nodes(f)
  PROVE  DelNode(f, p, k) =
    IF f[p].kind = "leaf" THEN {DelFromLeaf(f, n, k) : n \in {x \in {f[p]} : k \in Range(x.keys)}}
    ELSE {DelFromNode(f[p], UpperBound(f[p].keys, k), c) : c \in DelNode(f, f[p].kids[UpperBound(f[p].keys, k)], k)}
<1> DEFINE B(g, q) ==
            IF f[q].kind = "leaf" THEN {DelFromLeaf(f, n, k) : n \in {m \in {f[q]} : k \in Range(m.keys)}}
            ELSE {DelFromNode(f[q], UpperBound(f[q].keys, k), c) : c \in g[f[q].kids[UpperBound(f[q].keys, k)]]}
           D == Nodes(f) \cap (1..Len(f))
           R(m) == Nodes(f) \cap (1..m)
           S == {m \in 0..Len(f) : \E g : g = [q \in R(m) |-> B(g, q)]}
<1>0. Len(f) \in Nat /\ \A q \in Nodes(f) : q \in 1..Len(f)
  BY NodesIs DEF TreesOK
<1>1. 0 \in S
  <2> DEFINE g == [q \in R(0) |-> 0]
  <2>1. R(0) = {}
    OBVIOUS
  <2> HIDE DEF B
  <2>2. g = [q \in R(0) |-> B(g, q)]
    BY <2>1
  <2> HIDE DEF g, R
  <2>3. \E gg : gg = [q \in R(0) |-> B(gg, q)]
    BY <2>2
  <2> QED
    BY <2>3, <1>0
<1>2. ASSUME NEW m \in 0..Len(f), m < Len(f), m \in S PROVE m + 1 \in S
  <2>1. PICK g : g = [q \in R(m) |-> B(g, q)]
    BY <1>2
  <2> DEFINE h == [q \in R(m + 1) |-> IF q <= m THEN g[q] ELSE B(g, q)]
  <2>2. \A q \in Nodes(f) : q <= m => q \in R(m) /\ q \in R(m + 1)
    BY <1>0
  <2>3. ASSUME NEW q \in Nodes(f), q <= m PROVE h[q] = g[q]
    <3> HIDE DEF B, R
    <3> QED
      BY <2>2, <2>3
  <2>4. ASSUME NEW q \in R(m + 1) PROVE B(h, q) = B(g, q)
    <3>1. q \in Nodes(f) /\ q <= m + 1
      BY <1>0
    <3> HIDE DEF h, B, R
    <3>2. CASE f[q].kind = "leaf"
      BY <3>2 DEF B
    <3>3. CASE f[q].kind # "leaf"
      <4>1. f[q].kids[UpperBound(f[q].keys, k)] \in Nodes(f) /\ f[q].kids[UpperBound(f[q].keys, k)] <= m
        BY <3>1, <3>3, KidsBelow
      <4>2. h[f[q].kids[UpperBound(f[q].keys, k)]] = g[f[q].kids[UpperBound(f[q].keys, k)]]
        BY <4>1, <2>3
      <4> QED
        BY <4>2 DEF B
    <3> QED
      BY <3>2, <3>3
  <2>5. ASSUME NEW q \in R(m + 1) PROVE h[q] = B(h, q)
    <3>1. CASE q <= m
      <4>1. q \in Nodes(f) /\ q \in R(m)
        BY <3>1, <2>2
      <4> HIDE DEF h, B, R
      <4>2. g[q] = B(g, q)
        BY <4>1, <2>1
      <4> QED
        BY <4>1, <4>2, <3>1, <2>3, <2>4
    <3>2. CASE ~ (q <= m)
      <4> HIDE DEF B, R
      <4>1. h[q] = B(g, q)
        BY <3>2
      <4> HIDE DEF h
      <4> QED
        BY <4>1, <2>4
    <3> HIDE DEF h, B, R, D, S
    <3> QED
      BY <3>1, <3>2
  <2>6. h = [q \in R(m + 1) |-> B(h, q)]
    <3> HIDE DEF B, R
    <3>1. h = [q \in R(m + 1) |-> h[q]]
      OBVIOUS
    <3> HIDE DEF h
    <3> QED
      BY <3>1, <2>5
  <2>7. m + 1 \in 0..Len(f)
    BY <1>0, <1>2
  <2> HIDE DEF h, B, R
  <2> QED
    BY <2>6, <2>7
<1> HIDE DEF S
<1>3. Len(f) \in S
  <2>1. \A i \in 0..Len(f) : i < Len(f) /\ i \in S => i + 1 \in S
    BY <1>2
  <2>2. \A i \in 0..Len(f) : i \in S
    BY <1>0, <1>1, <2>1, UpTo
  <2> QED
    BY <2>2, <1>0
<1>4. R(Len(f)) = Nodes(f)
  BY <1>0
<1> HIDE DEF R
<1>5. PICK g : g = [q \in Nodes(f) |-> B(g, q)]
  <2> HIDE DEF B
  <2>1. \E gg : gg = [q \in R(Len(f)) |-> B(gg, q)]
    BY <1>3 DEF S
  <2> QED
    BY <2>1, <1>4
<1> DEFINE c == CHOOSE gg : gg = [q \in Nodes(f) |-> B(gg, q)]
<1>6. c = [q \in Nodes(f) |-> B(c, q)]
  <2> HIDE DEF B
  <2> QED
    BY <1>5
<1>7. \A q : DelNode(f, q, k) = c[q]
  BY DEF DelNode
<1> HIDE DEF c
<1>8. c[p] = B(c, p)
  <2> HIDE DEF B
  <2> QED
    BY <1>6
<1> QED
  BY <1>7, <1>8

\* The files ds are those a delete at p may leave, from those it leaves below it.
Unfolds(f, p, k, ds) ==
  ds = IF f[p].kind = "leaf" THEN {DelFromLeaf(f, n, k) : n \in {x \in {f[p]} : k \in Range(x.keys)}}
       ELSE {DelFromNode(f[p], UpperBound(f[p].keys, k), c) : c \in DelNode(f, f[p].kids[UpperBound(f[p].keys, k)], k)}

\* The same, of a delete at p and those below.
LEMMA DelNodeUnfolds ==
  ASSUME NEW f, NEW w, NEW loaded, TreesOK(f, w, loaded), NEW k \in Nat,
         NEW p \in Nodes(f)
  PROVE  Unfolds(f, p, k, DelNode(f, p, k))
<1>1. DelNode(f, p, k) =
        IF f[p].kind = "leaf" THEN {DelFromLeaf(f, n, k) : n \in {x \in {f[p]} : k \in Range(x.keys)}}
        ELSE {DelFromNode(f[p], UpperBound(f[p].keys, k), c) : c \in DelNode(f, f[p].kids[UpperBound(f[p].keys, k)], k)}
  BY DelNodeIs
<1> QED
  BY <1>1 DEF Unfolds

\* Collapsed is what its recursion says.
LEMMA CollapsedIs ==
  ASSUME NEW f, NEW w, NEW loaded, TreesOK(f, w, loaded), NEW n, n.kind = "node" => n.kids[1] \in Nodes(f)
  PROVE  Collapsed(f, n) =
    IF n.kind = "node" /\ n.keys = <<>> THEN Collapsed(f, f[n.kids[1]]) ELSE n
<1> DEFINE B(g, q) ==
            IF f[q].kind = "node" /\ f[q].keys = <<>> THEN g[f[q].kids[1]] ELSE f[q]
           D == Nodes(f) \cap (1..Len(f))
           R(m) == Nodes(f) \cap (1..m)
           S == {m \in 0..Len(f) : \E g : g = [q \in R(m) |-> B(g, q)]}
<1>0. Len(f) \in Nat /\ \A q \in Nodes(f) : q \in 1..Len(f)
  BY NodesIs DEF TreesOK
<1>1. 0 \in S
  <2> DEFINE g == [q \in R(0) |-> 0]
  <2>1. R(0) = {}
    OBVIOUS
  <2> HIDE DEF B
  <2>2. g = [q \in R(0) |-> B(g, q)]
    BY <2>1
  <2> HIDE DEF g, R
  <2>3. \E gg : gg = [q \in R(0) |-> B(gg, q)]
    BY <2>2
  <2> QED
    BY <2>3, <1>0
<1>2. ASSUME NEW m \in 0..Len(f), m < Len(f), m \in S PROVE m + 1 \in S
  <2>1. PICK g : g = [q \in R(m) |-> B(g, q)]
    BY <1>2
  <2> DEFINE h == [q \in R(m + 1) |-> IF q <= m THEN g[q] ELSE B(g, q)]
  <2>2. \A q \in Nodes(f) : q <= m => q \in R(m) /\ q \in R(m + 1)
    BY <1>0
  <2>3. ASSUME NEW q \in Nodes(f), q <= m PROVE h[q] = g[q]
    <3> HIDE DEF B, R
    <3> QED
      BY <2>2, <2>3
  <2>4. ASSUME NEW q \in R(m + 1) PROVE B(h, q) = B(g, q)
    <3>1. q \in Nodes(f) /\ q <= m + 1
      BY <1>0
    <3> HIDE DEF h, B, R
    <3>2. CASE ~ (f[q].kind = "node" /\ f[q].keys = <<>>)
      BY <3>2 DEF B
    <3>3. CASE f[q].kind = "node" /\ f[q].keys = <<>>
      <4>1. f[q].kids[1] \in Nodes(f) /\ f[q].kids[1] <= m
        BY <3>1, <3>3, KidsBelow
      <4>2. h[f[q].kids[1]] = g[f[q].kids[1]]
        BY <4>1, <2>3
      <4> QED
        BY <4>2 DEF B
    <3> QED
      BY <3>2, <3>3
  <2>5. ASSUME NEW q \in R(m + 1) PROVE h[q] = B(h, q)
    <3>1. CASE q <= m
      <4>1. q \in Nodes(f) /\ q \in R(m)
        BY <3>1, <2>2
      <4> HIDE DEF h, B, R
      <4>2. g[q] = B(g, q)
        BY <4>1, <2>1
      <4> QED
        BY <4>1, <4>2, <3>1, <2>3, <2>4
    <3>2. CASE ~ (q <= m)
      <4> HIDE DEF B, R
      <4>1. h[q] = B(g, q)
        BY <3>2
      <4> HIDE DEF h
      <4> QED
        BY <4>1, <2>4
    <3> QED
      BY <3>1, <3>2
  <2>6. h = [q \in R(m + 1) |-> B(h, q)]
    <3> HIDE DEF B, R
    <3>1. h = [q \in R(m + 1) |-> h[q]]
      OBVIOUS
    <3> HIDE DEF h
    <3> QED
      BY <3>1, <2>5
  <2>7. m + 1 \in 0..Len(f)
    BY <1>0, <1>2
  <2> HIDE DEF h, B, R
  <2> QED
    BY <2>6, <2>7
<1> HIDE DEF S
<1>3. Len(f) \in S
  <2>1. \A i \in 0..Len(f) : i < Len(f) /\ i \in S => i + 1 \in S
    BY <1>2
  <2>2. \A i \in 0..Len(f) : i \in S
    BY <1>0, <1>1, <2>1, UpTo
  <2> QED
    BY <2>2, <1>0
<1>4. R(Len(f)) = Nodes(f)
  BY <1>0
<1> HIDE DEF R
<1>5. PICK g : g = [q \in Nodes(f) |-> B(g, q)]
  <2> HIDE DEF B
  <2>1. \E gg : gg = [q \in R(Len(f)) |-> B(gg, q)]
    BY <1>3 DEF S
  <2> QED
    BY <2>1, <1>4
<1> DEFINE c == CHOOSE gg : gg = [q \in Nodes(f) |-> B(gg, q)]
<1>6. c = [q \in Nodes(f) |-> B(c, q)]
  <2> HIDE DEF B
  <2> QED
    BY <1>5
<1>7. \A x : Collapsed(f, x) = IF x.kind = "node" /\ x.keys = <<>> THEN c[x.kids[1]] ELSE x
  BY DEF Collapsed
<1> HIDE DEF c
<1>8. \A q \in Nodes(f) : c[q] = B(c, q)
  <2> HIDE DEF B
  <2> QED
    BY <1>6
<1>9. \A q \in Nodes(f) : Collapsed(f, f[q]) = c[q]
  BY <1>7, <1>8
<1> QED
  BY <1>7, <1>9

-----------------------------------------------------------------------------
(* Deleting.                                                               *)

\* Deleting k below p: where it is, one result.
Deletes(f, w, loaded, p, k, cs) ==
  /\ \A c \in cs : Deleted(f, w, loaded, p, k, c)
  /\ cs = {} => \A x \in w[p].e : x[1] # k

LEMMA LeafDeletes ==
  ASSUME NEW f, NEW w, NEW loaded \in BOOLEAN, TreesOK(f, w, loaded), NEW p \in Nodes(f), f[p].kind = "leaf",
         NEW k \in Keys, NEW cs, Unfolds(f, p, k, cs)
  PROVE  Deletes(f, w, loaded, p, k, cs)
<1>1. cs = {DelFromLeaf(f, n, k) : n \in {x \in {f[p]} : k \in Range(x.keys)}}
  BY DEF Unfolds
<1>2. ASSUME NEW c \in cs PROVE Deleted(f, w, loaded, p, k, c)
  <2>1. k \in Range(f[p].keys) /\ c = DelFromLeaf(f, f[p], k)
    BY <1>1, <1>2
  <2> QED
    BY <2>1, LeafLeft
<1>3. ASSUME cs = {}, NEW y \in w[p].e PROVE y[1] # k
  <2>1. w[p] = Summary(f, w, f[p]) /\ RecordOK(f, w, f[p])
    BY DEF TreesOK, Fits
  <2>2. PICK n : n = f[p]
    OBVIOUS
  <2>3. w[p].e = {<<n.keys[i], ResolveValue(f, n.vals[i])>> : i \in 1..Len(n.keys)}
    BY <2>1, <2>2 DEF Summary, LeafSummary
  <2>4. PICK i \in 1..Len(n.keys) : y = <<n.keys[i], ResolveValue(f, n.vals[i])>>
    BY <2>3, <1>3
  <2>5. n.keys \in Seq(Keys)
    BY <2>1, <2>2, RecordShape
  <2>6. DOMAIN n.keys = 1..Len(n.keys)
    BY <2>5
  <2>7. n.keys[i] \in Range(n.keys)
    BY <2>6 DEF Range
  <2>8. ~ (k \in Range(n.keys))
    <3> SUFFICES ASSUME k \in Range(n.keys) PROVE FALSE
      OBVIOUS
    <3>1. n \in {x \in {f[p]} : k \in Range(x.keys)}
      BY <2>2
    <3>2. DelFromLeaf(f, n, k) \in cs
      BY <3>1, <1>1
    <3> QED
      BY <3>2, <1>3
  <2> QED
    BY <2>4, <2>7, <2>8
<1> QED
  BY <1>2, <1>3 DEF Deletes

ResultsFrom(n, i, cs, ds) == ds = {DelFromNode(n, i, c) : c \in cs}

\* A delete at an internal node does what it should when it does below its child.
LEMMA NodeDeletes ==
  ASSUME NEW f, NEW w, NEW loaded \in BOOLEAN, TreesOK(f, w, loaded), NEW p \in Nodes(f), f[p].kind # "leaf",
         NEW k \in Keys, NEW i \in Nat, NEW q \in Nat, AtChild(f, p, k, i, q),
         NEW cs, Deletes(f, w, loaded, q, k, cs), NEW ds, ResultsFrom(f[p], i, cs, ds)
  PROVE  Deletes(f, w, loaded, p, k, ds)
<1>1. ds = {DelFromNode(f[p], i, c) : c \in cs}
  BY DEF ResultsFrom
<1>2. ASSUME NEW d \in ds PROVE Deleted(f, w, loaded, p, k, d)
  <2>1. PICK c \in cs : d = DelFromNode(f[p], i, c)
    BY <1>1, <1>2
  <2>2. Deleted(f, w, loaded, q, k, c)
    BY DEF Deletes
  <2> QED
    BY <2>1, <2>2, DelFromNodeIs
<1>3. ASSUME ds = {} PROVE \A x \in w[p].e : x[1] # k
  <2>1. cs = {}
    BY <1>1, <1>3
  <2>2. \A x \in w[q].e : x[1] # k
    BY <2>1 DEF Deletes
  <2>3. PICK n : n = f[p]
    OBVIOUS
  <2>4. /\ f \in Seq(Records) /\ w[p] = Summary(f, w, n)
        /\ \A x \in Nodes(f) : SummaryOK(w[x])
    BY <2>3 DEF TreesOK
  <2>5. NodeOK(f, w, n) /\ n.kind = "node"
    BY <2>3, KidsBelow
  <2>6. i = UpperBound(n.keys, k) /\ q = n.kids[i]
    BY <2>3 DEF AtChild
  <2>7. \A j \in 1..Len(n.kids) : j # i => \A x \in w[n.kids[j]].e : x[1] # k
    BY <2>4, <2>5, <2>6, ChildOfKey
  <2>8. w[p].e = UNION {w[n.kids[j]].e : j \in 1..Len(n.kids)}
    BY <2>4, <2>5 DEF Summary, NodeSummary
  <2> QED
    BY <2>2, <2>6, <2>7, <2>8
<1> QED
  BY <1>2, <1>3 DEF Deletes

\* A delete does what it should below every node.
LEMMA DelNodeDeletes ==
  ASSUME NEW f, NEW w, NEW loaded \in BOOLEAN, TreesOK(f, w, loaded), NEW k \in Keys
  PROVE  \A p \in Nodes(f) : Deletes(f, w, loaded, p, k, DelNode(f, p, k))
<1> DEFINE A(p) == Deletes(f, w, loaded, p, k, DelNode(f, p, k))
           S == {m \in 0..Len(f) : \A p \in Nodes(f) : p <= m => A(p)}
<1>0. f \in Seq(Records) /\ Len(f) \in Nat /\ \A p \in Nodes(f) : p \in 1..Len(f)
  BY NodesIs DEF TreesOK
<1>1. 0 \in S
  BY <1>0
<1>2. ASSUME NEW m \in 0..Len(f), m < Len(f), m \in S PROVE m + 1 \in S
  <2>1. m + 1 \in 0..Len(f)
    BY <1>0, <1>2
  <2>2. ASSUME NEW p \in Nodes(f), p <= m + 1 PROVE A(p)
    <3>0. k \in Nat
      BY MapAssumption DEF Keys
    <3>1. Unfolds(f, p, k, DelNode(f, p, k))
      BY <3>0, DelNodeUnfolds
    <3>2. CASE f[p].kind = "leaf"
      BY <3>1, <3>2, LeafDeletes
    <3>3. CASE f[p].kind # "leaf"
      <4>0. HasChild(f, p, k, m)
        BY <3>0, <3>3, <2>2, AtChildIs
      <4>1. PICK i \in Nat, q \in Nodes(f) : AtChild(f, p, k, i, q) /\ q <= m /\ q \in Nat
        BY <4>0 DEF HasChild
      <4>2. ResultsFrom(f[p], i, DelNode(f, q, k), DelNode(f, p, k))
        BY <4>1, <3>1, <3>3 DEF AtChild, ResultsFrom, Unfolds
      <4>3. Deletes(f, w, loaded, q, k, DelNode(f, q, k))
        BY <4>1, <1>2
      <4> QED
        BY <4>1, <4>2, <4>3, <3>3, NodeDeletes
    <3> QED
      BY <3>2, <3>3
  <2> HIDE DEF A
  <2> QED
    BY <2>1, <2>2
<1> HIDE DEF S
<1>3. \A m \in 0..Len(f) : m \in S
  <2>1. \A i \in 0..Len(f) : i < Len(f) /\ i \in S => i + 1 \in S
    BY <1>2
  <2> QED
    BY <2>1, <1>0, <1>1, UpTo
<1>4. Len(f) \in S
  BY <1>3, <1>0
<1> QED
  BY <1>4, <1>0 DEF S

\* A node that may be saved as a root with the entries es.
Saveable(f, w, loaded, es, n) ==
  n \in Records /\ n.kind \in {"leaf", "node"} /\ Fits(f, w, loaded, n) /\ Summary(f, w, n).e = es

LEMMA CollapsedSaveable ==
  ASSUME NEW f, NEW w, NEW loaded \in BOOLEAN, TreesOK(f, w, loaded)
  PROVE  \A p \in Nodes(f) : Saveable(f, w, loaded, w[p].e, Collapsed(f, f[p]))
<1> DEFINE A(p) == Saveable(f, w, loaded, w[p].e, Collapsed(f, f[p]))
           S == {m \in 0..Len(f) : \A p \in Nodes(f) : p <= m => A(p)}
<1>0. f \in Seq(Records) /\ Len(f) \in Nat /\ \A p \in Nodes(f) : p \in 1..Len(f)
  BY NodesIs DEF TreesOK
<1>1. 0 \in S
  BY <1>0
<1>2. ASSUME NEW m \in 0..Len(f), m < Len(f), m \in S PROVE m + 1 \in S
  <2>1. m + 1 \in 0..Len(f)
    BY <1>0, <1>2
  <2>2. ASSUME NEW p \in Nodes(f), p <= m + 1 PROVE A(p)
    <3>0. f[p] \in Records /\ f[p].kind \in {"leaf", "node"} /\ Fits(f, w, loaded, f[p]) /\ w[p] = Summary(f, w, f[p])
      BY <1>0, NodesIs DEF TreesOK
    <3>1. f[p].kind = "node" => NodeOK(f, w, f[p]) /\ f[p].kids[1] \in Nodes(f) /\ f[p].kids[1] <= m
      BY <2>2, KidsBelow
    <3>2. Collapsed(f, f[p]) = IF f[p].kind = "node" /\ f[p].keys = <<>> THEN Collapsed(f, f[f[p].kids[1]]) ELSE f[p]
      BY <3>1, CollapsedIs
    <3>3. CASE f[p].kind = "node" /\ f[p].keys = <<>>
      <4>1. Saveable(f, w, loaded, w[f[p].kids[1]].e, Collapsed(f, f[f[p].kids[1]]))
        BY <3>1, <3>3, <1>2
      <4>2. w[p].e = w[f[p].kids[1]].e
        <5>1. Len(f[p].kids) = 1
          BY <3>1, <3>3 DEF NodeOK
        <5>2. w[p].e = UNION {w[f[p].kids[i]].e : i \in 1..1}
          BY <5>1, <3>0, <3>3 DEF Summary, NodeSummary
        <5>3. 1..1 = {1}
          OBVIOUS
        <5> QED
          BY <5>2, <5>3
      <4> QED
        BY <4>1, <4>2, <3>2, <3>3
    <3>4. CASE ~ (f[p].kind = "node" /\ f[p].keys = <<>>)
      <4>1. Saveable(f, w, loaded, w[p].e, f[p])
        BY <3>0 DEF Saveable
      <4> QED
        BY <4>1, <3>2, <3>4
    <3> QED
      BY <3>3, <3>4
  <2> HIDE DEF A
  <2> QED
    BY <2>1, <2>2
<1> HIDE DEF S
<1>3. \A m \in 0..Len(f) : m \in S
  <2>1. \A i \in 0..Len(f) : i < Len(f) /\ i \in S => i + 1 \in S
    BY <1>2
  <2> QED
    BY <2>1, <1>0, <1>1, UpTo
<1>4. Len(f) \in S
  BY <1>3, <1>0
<1> QED
  BY <1>4, <1>0 DEF S

Without(es, k) == {x \in es : x[1] # k}

DeletedRoots(f, w, loaded, top, k, gs) ==
  /\ \A g \in gs : Rooted(f, w, loaded, Without(w[top].e, k), g)
  /\ gs # {} <=> \E x \in w[top].e : x[1] = k

LEMMA LeftSaveable ==
  ASSUME NEW f, NEW w, NEW loaded \in BOOLEAN, TreesOK(f, w, loaded), NEW n, RecordOK(f, w, n),
         loaded \/ KidsFilled(f, n), Len(n.keys) < Order
  PROVE  Saveable(f, w, loaded, Summary(f, w, n).e, Collapsed(f, n))
<1>1. n.keys \in Seq(Keys) /\ n.kind \in {"leaf", "node"} /\ n \in Records /\ Len(n.keys) \in Nat
  BY RecordShape
<1>2. n.kind = "node" => NodeOK(f, w, n)
  BY RecordKinds DEF RecordOK, LeafOK
<1>3. n.kind = "node" => n.kids[1] \in Nodes(f) /\ Len(n.kids) = Len(n.keys) + 1
  <2> SUFFICES ASSUME n.kind = "node" PROVE n.kids[1] \in Nodes(f) /\ Len(n.kids) = Len(n.keys) + 1
    OBVIOUS
  <2>1. Len(n.kids) = Len(n.keys) + 1
    BY <1>2 DEF NodeOK
  <2>2. 1 \in 1..Len(n.kids)
    BY <2>1, <1>1
  <2> QED
    BY <2>1, <2>2, <1>2 DEF NodeOK
<1>4. Collapsed(f, n) = IF n.kind = "node" /\ n.keys = <<>> THEN Collapsed(f, f[n.kids[1]]) ELSE n
  BY <1>3, CollapsedIs
<1>5. CASE n.kind = "node" /\ n.keys = <<>>
  <2>1. Saveable(f, w, loaded, w[n.kids[1]].e, Collapsed(f, f[n.kids[1]]))
    BY <1>3, <1>5, CollapsedSaveable
  <2>2. Summary(f, w, n).e = w[n.kids[1]].e
    <3>1. Len(n.kids) = 1
      BY <1>3, <1>5
    <3>2. Summary(f, w, n).e = UNION {w[n.kids[i]].e : i \in 1..1}
      BY <3>1, <1>5 DEF Summary, NodeSummary
    <3>3. 1..1 = {1}
      OBVIOUS
    <3> QED
      BY <3>2, <3>3
  <2> QED
    BY <2>1, <2>2, <1>4, <1>5
<1>6. CASE ~ (n.kind = "node" /\ n.keys = <<>>)
  <2>1. n.kind = "node" => Len(n.keys) >= 1
    BY <1>1, <1>6
  <2>2. Saveable(f, w, loaded, Summary(f, w, n).e, n)
    BY <2>1, <1>1 DEF Saveable, Fits, Dense
  <2> QED
    BY <2>2, <1>4, <1>6
<1> QED
  BY <1>5, <1>6

\* A delete of a key that is there leaves a root with the other entries, and there is
\* no result for a key that is not.
LEMMA DeleteRootIs ==
  ASSUME NEW f, NEW w, NEW loaded \in BOOLEAN, TreesOK(f, w, loaded), NEW top \in Nodes(f), NEW k \in Keys
  PROVE  DeletedRoots(f, w, loaded, top, k, DeleteRoot(f, top, k))
<1>1. PICK cs, gs : cs = DelNode(f, top, k) /\ gs = DeleteRoot(f, top, k)
  OBVIOUS
<1>2. gs = {Append(c.file, Collapsed(c.file, c.node)) : c \in cs}
  BY <1>1 DEF DeleteRoot
<1>3. Deletes(f, w, loaded, top, k, cs)
  BY <1>1, DelNodeDeletes
<1>4. ASSUME NEW g \in gs PROVE Rooted(f, w, loaded, Without(w[top].e, k), g) /\ \E x \in w[top].e : x[1] = k
  <2>1. PICK c \in cs : g = Append(c.file, Collapsed(c.file, c.node))
    BY <1>2, <1>4
  <2>2. Deleted(f, w, loaded, top, k, c)
    BY <1>3 DEF Deletes
  <2>3. /\ c.file \in Seq(Records) /\ Extends(f, c.file) /\ f \in Seq(Records)
        /\ \E x \in w[top].e : x[1] = k
    BY <2>2 DEF Deleted, TreesOK
  <2>4. PICK u : Left(f, w, loaded, top, k, c, u)
    BY <2>2 DEF Deleted
  <2>5. /\ TreesOK(c.file, u, loaded) /\ Agrees(f, w, u)
        /\ RecordOK(c.file, u, c.node) /\ (loaded \/ KidsFilled(c.file, c.node)) /\ Len(c.node.keys) < Order
        /\ Summary(c.file, u, c.node).e = Without(w[top].e, k)
    BY <2>4 DEF Left, Without
  <2>6. Saveable(c.file, u, loaded, Without(w[top].e, k), Collapsed(c.file, c.node))
    BY <2>5, LeftSaveable
  <2>7. PICK n : n = Collapsed(c.file, c.node)
    OBVIOUS
  <2>8. Rooted(c.file, u, loaded, Without(w[top].e, k), g)
    <3>1. n \in Records /\ n.kind \in {"leaf", "node"} /\ Fits(c.file, u, loaded, n)
          /\ Summary(c.file, u, n).e = Without(w[top].e, k)
      BY <2>6, <2>7 DEF Saveable
    <3>2. Rooted(c.file, u, loaded, Summary(c.file, u, n).e, Append(c.file, n))
      BY <3>1, <2>5, RootSaved
    <3> QED
      BY <3>1, <3>2, <2>1, <2>7
  <2> QED
    BY <2>3, <2>5, <2>8, RootedOn
<1>5. ASSUME gs = {} PROVE \A x \in w[top].e : x[1] # k
  <2>1. cs = {}
    BY <1>2, <1>5
  <2> QED
    BY <2>1, <1>3 DEF Deletes
<1>6. DeletedRoots(f, w, loaded, top, k, gs)
  BY <1>4, <1>5 DEF DeletedRoots
<1> QED
  BY <1>1, <1>6

=============================================================================
