------------------------------ MODULE BPlusTreeInv ------------------------------
(***************************************************************************)
(* The inductive invariant of BPlusTree.  It gives every node of the file, *)
(* not only those of live trees, a summary of what is below it: its        *)
(* height, its entries and its keys with the separators among them.  That  *)
(* summaries fit from each node to its children, a property of one record  *)
(* at a time, is what appending a node keeps.                              *)
(***************************************************************************)
EXTENDS BPlusTree

Keys == 1..MaxKey
Refs == ({"here"} \X Value) \cup ({"at"} \X Nat)
LeafRecords == [kind : {"leaf"}, keys : Seq(Keys), vals : Seq(Refs)]
NodeRecords == [kind : {"node"}, keys : Seq(Keys), kids : Seq(Nat)]
ValueRecords == [kind : {"value"}, val : Value]
MetaRecords == [kind : {"meta"}, root : Nat, size : Nat, applied : 0..MaxApplied]
Records == LeafRecords \cup NodeRecords \cup ValueRecords \cup MetaRecords

\* Height, entries, keys, and whether the node and the last one of each level below it
\* hold MinKeys keys.
Summaries == [h : Nat, e : SUBSET (Keys \X Value), ks : SUBSET Keys, solid : BOOLEAN]

SummaryOK(m) ==
  /\ m \in Summaries
  /\ \A x \in m.e : x[1] \in m.ks
  /\ \A x, y \in m.e : x[1] = y[1] => x = y
  /\ m.solid => m.ks # {}

Ascends(keys) == \A i, j \in 1..Len(keys) : i < j => keys[i] < keys[j]

-----------------------------------------------------------------------------
(* One node, in the file or not yet, over the summaries w of the nodes of  *)
(* f.  It may still have to be split.                                      *)

LeafOK(f, n) ==
  /\ n \in LeafRecords /\ Len(n.vals) = Len(n.keys)
  /\ \A i \in 1..Len(n.vals) : n.vals[i][1] = "at" =>
       n.vals[i][2] \in 1..Len(f) /\ f[n.vals[i][2]] \in ValueRecords
  /\ Ascends(n.keys)

\* The keys below child i are not less than the separators before it, and less than
\* those after it.  Only the last child may be short of keys, where the tree was loaded.
NodeOK(f, w, n) ==
  /\ n \in NodeRecords /\ Len(n.kids) = Len(n.keys) + 1
  /\ \A i \in 1..Len(n.kids) : n.kids[i] \in Nodes(f) /\ w[n.kids[i]].h = w[n.kids[1]].h
  /\ Ascends(n.keys)
  /\ \A j \in 1..Len(n.keys) : w[n.kids[j]].solid
  /\ \A i \in 1..Len(n.kids), j \in 1..Len(n.keys) : \A k \in w[n.kids[i]].ks :
       IF j < i THEN n.keys[j] <= k ELSE k < n.keys[j]

RecordOK(f, w, n) == LeafOK(f, n) \/ NodeOK(f, w, n)

LeafSummary(f, n) ==
  [h |-> 0, e |-> {<<n.keys[i], ResolveValue(f, n.vals[i])>> : i \in 1..Len(n.keys)},
   ks |-> {n.keys[i] : i \in 1..Len(n.keys)}, solid |-> Len(n.keys) >= MinKeys]

NodeSummary(w, n) ==
  [h  |-> w[n.kids[1]].h + 1,
   e  |-> UNION {w[n.kids[i]].e : i \in 1..Len(n.kids)},
   ks |-> {n.keys[i] : i \in 1..Len(n.keys)} \cup UNION {w[n.kids[i]].ks : i \in 1..Len(n.kids)},
   solid |-> Len(n.keys) >= MinKeys /\ w[n.kids[Len(n.kids)]].solid]

Summary(f, w, n) == IF n.kind = "leaf" THEN LeafSummary(f, n) ELSE NodeSummary(w, n)

\* What n points at was written before p.
Before(n, p) ==
  IF n.kind = "leaf" THEN \A i \in 1..Len(n.vals) : n.vals[i][1] = "at" => n.vals[i][2] < p
                     ELSE \A i \in 1..Len(n.kids) : n.kids[i] < p

\* In a file that did not begin as a bulk load, no node has a sparse child.
KidsFilled(f, n) ==
  n.kind = "node" => \A i \in 1..Len(n.kids) : Len(f[n.kids[i]].keys) >= MinKeys

\* The last child is not short of keys.
Tailed(w, n) == n.kind = "node" => w[n.kids[Len(n.kids)]].solid

Dense(f, n) == KidsFilled(f, n) /\ (n.kind = "node" => Len(n.keys) >= 1)

-----------------------------------------------------------------------------
(* A file of nodes that are all in order; `loaded` as in `packed`.         *)

Fits(f, w, loaded, n) ==
  RecordOK(f, w, n) /\ Len(n.keys) < Order /\ (loaded \/ Dense(f, n))

TreesOK(f, w, loaded) ==
  /\ f \in Seq(Records)
  /\ \A p \in Nodes(f) : /\ SummaryOK(w[p]) /\ w[p] = Summary(f, w, f[p])
                         /\ Fits(f, w, loaded, f[p]) /\ Before(f[p], p)

-----------------------------------------------------------------------------
(* What an insert or a delete makes of a node with the summary m: one node *)
(* to be saved, or two and the key between them.                           *)

Halves(f, w, loaded, m, hs, seps) ==
  /\ hs \in Seq(Records) /\ seps \in Seq(m.ks) /\ Len(seps) \in {0, 1} /\ Len(hs) = Len(seps) + 1
  /\ \A i \in 1..Len(hs) :
       /\ RecordOK(f, w, hs[i]) /\ Len(hs[i].keys) < Order /\ (loaded \/ KidsFilled(f, hs[i]))
       /\ Summary(f, w, hs[i]).h = m.h /\ Summary(f, w, hs[i]).ks \subseteq m.ks
  /\ UNION {Summary(f, w, hs[i]).e : i \in 1..Len(hs)} = m.e
  /\ m.solid => Summary(f, w, hs[Len(hs)]).solid
  /\ Len(seps) = 1 =>
       /\ \A i \in 1..2 : Len(hs[i].keys) >= MinKeys
       /\ Summary(f, w, hs[1]).solid
       /\ \A k \in Summary(f, w, hs[1]).ks : k < seps[1]
       /\ \A k \in Summary(f, w, hs[2]).ks : seps[1] <= k

-----------------------------------------------------------------------------
(* The commits and the readers of a file, and the invariant.               *)

Metas(f) == {n \in 1..Len(f) : f[n].kind = "meta"}

\* The version of commit n: a node before it, with as many entries as it says.
MetaOK(f, w, n) ==
  f[n].root \in Nodes(f) /\ f[n].root < n /\ f[n].size = Cardinality(w[f[n].root].e)

\* The commits of a file, whose applied indices ascend.
Committed(f, w, loaded) ==
  /\ TreesOK(f, w, loaded)
  /\ \A n \in Metas(f) : MetaOK(f, w, n)
  /\ \A m, n \in Metas(f) : m <= n => f[m].applied <= f[n].applied

CursorRecord(l, p, a, min, max, last) ==
  [leaf |-> l, pos |-> p, ahead |-> a, min |-> min, max |-> max, last |-> last]

\* What is ahead of the cursor are nodes of f.
CursorOK(f, cur) ==
  \E l, p, a, min, max, last : a \in Seq(Nodes(f)) /\ cur = CursorRecord(l, p, a, min, max, last)

SnapOK(f, w, x) == x.root \in Nodes(f) /\ x.size = Cardinality(w[x.root].e)

\* Readers stand on nodes, and a snapshot knows how many entries there are.
ReadersOK(f, w, ss, cs) ==
  /\ \A s \in Snaps : ss[s] # None => SnapOK(f, w, ss[s])
  /\ \A c \in Cursors : cs[c] # None => CursorOK(f, cs[c])

\* There are summaries that fit every node of the file, those of live trees among them.
Sound == \E w : Committed(file, w, packed) /\ ReadersOK(file, w, snaps, cursors)

\* An open handle has the state of the last commit and an applied index to follow it.
Handle ==
  /\ file # <<>> => Len(file) \in Metas(file)
  /\ up => /\ file # <<>> /\ root = file[Len(file)].root /\ size = file[Len(file)].size
           /\ file[Len(file)].applied <= applied

\* Of the variables other than the file.
Types ==
  /\ safe \in Nat /\ applied \in 0..MaxApplied /\ up \in BOOLEAN /\ packed \in BOOLEAN /\ use \in Uses
  /\ snaps = [s \in Snaps |-> snaps[s]] /\ cursors = [c \in Cursors |-> cursors[c]]

Inv == Types /\ Handle /\ Sound
=============================================================================
