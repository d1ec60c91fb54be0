------------------------------- MODULE BPlusNodes -------------------------------
(***************************************************************************)
(* The algorithms of src/bplustree.c on the records of a file: insert with *)
(* splits, delete with rebalancing, search, range scan, the descent of a   *)
(* cursor, the bulk load of a compaction and the checks of bpt_verify.     *)
(*                                                                         *)
(* A file is a sequence of records and a pointer is a position in it.      *)
(* Nothing is overwritten: an operation takes a file and gives the longer  *)
(* one.  Node ids, the header and the encoding are left out.               *)
(***************************************************************************)
EXTENDS Integers, FiniteSets, SequencesExt

CONSTANTS
  Order,        \* of the tree: a node holds fewer keys
  Large         \* the values that are stored outside the leaves

ASSUME OrderAssumption == Order \in Nat /\ Order >= 3

\* The pointers at which a file has a node.  The code descends from node to node, and
\* what it computes on the way is a function of these.
Nodes(f) == {p \in DOMAIN f : f[p].kind \in {"leaf", "node"}}

MinKeys == (Order + 1) \div 2 - 1

Leaf(keys, vals) == [kind |-> "leaf", keys |-> keys, vals |-> vals]
Node(keys, kids) == [kind |-> "node", keys |-> keys, kids |-> kids]

LowerBound(keys, k) == 1 + Cardinality({i \in DOMAIN keys : keys[i] < k})
UpperBound(keys, k) == 1 + Cardinality({i \in DOMAIN keys : keys[i] <= k})

\* `s` with `r` in place of the `n` elements from position `i` on.
Splice(s, i, n, r) == SubSeq(s, 1, i - 1) \o r \o SubSeq(s, i + n, Len(s))

StoreValue(f, v) ==
  IF v \in Large THEN [file |-> Append(f, [kind |-> "value", val |-> v]),
                       ref  |-> <<"at", Len(f) + 1>>]
                 ELSE [file |-> f, ref |-> <<"here", v>>]

ResolveValue(f, ref) == IF ref[1] = "at" THEN f[ref[2]].val ELSE ref[2]

\* The pointers the nodes get when they are appended to the file.
Pointers(f, nodes) == [i \in DOMAIN nodes |-> Len(f) + i]

-----------------------------------------------------------------------------
(* Insert.  A result holds the file with the nodes saved below, the one or *)
(* two nodes to be saved in place of the old one, and the key that comes   *)
(* between two.                                                            *)

Whole(n) == [halves |-> <<n>>, seps |-> <<>>]

\* The leaf's right half keeps the key that separates the halves.
SplitLeaf(n) ==
  LET mid == (Len(n.keys) + 1) \div 2 IN
  [halves |-> <<Leaf(SubSeq(n.keys, 1, mid), SubSeq(n.vals, 1, mid)),
                Leaf(SubSeq(n.keys, mid + 1, Len(n.keys)), SubSeq(n.vals, mid + 1, Len(n.vals)))>>,
   seps   |-> <<n.keys[mid + 1]>>]

\* The separator of two internal nodes moves up.
SplitNode(n) ==
  LET mid == (Len(n.keys) + 1) \div 2 IN
  [halves |-> <<Node(SubSeq(n.keys, 1, mid - 1), SubSeq(n.kids, 1, mid)),
                Node(SubSeq(n.keys, mid + 1, Len(n.keys)), SubSeq(n.kids, mid + 1, Len(n.kids)))>>,
   seps   |-> <<n.keys[mid]>>]

Fit(n) ==
  IF Len(n.keys) < Order THEN Whole(n)
  ELSE IF n.kind = "leaf" THEN SplitLeaf(n) ELSE SplitNode(n)

AddToLeaf(f, n, k, v) ==
  LET stored == StoreValue(f, v)
      i      == LowerBound(n.keys, k)
      old    == IF k \in Range(n.keys) THEN 1 ELSE 0
      new    == Fit(Leaf(Splice(n.keys, i, old, <<k>>), Splice(n.vals, i, old, <<stored.ref>>)))
  IN  [file |-> stored.file, halves |-> new.halves, seps |-> new.seps, updated |-> old = 1]

\* `c` is what came of child `i`.
AddToNode(n, i, c) ==
  LET new == Fit(Node(Splice(n.keys, i, 0, c.seps),
                      Splice(n.kids, i, 1, Pointers(c.file, c.halves))))
  IN  [file |-> c.file \o c.halves, halves |-> new.halves, seps |-> new.seps,
       updated |-> c.updated]

AddNode(f, ptr, k, v) ==
  LET add[p \in Nodes(f)] ==
        LET i == UpperBound(f[p].keys, k) IN
        IF f[p].kind = "leaf" THEN AddToLeaf(f, f[p], k, v)
                              ELSE AddToNode(f[p], i, add[f[p].kids[i]])
  IN  add[ptr]

\* The file with the new root at its end.
AddRoot(f, root, k, v) ==
  LET r == AddNode(f, root, k, v) IN
  [updated |-> r.updated,
   file    |-> IF Len(r.halves) = 1 THEN r.file \o r.halves
               ELSE Append(r.file \o r.halves, Node(r.seps, Pointers(r.file, r.halves)))]

-----------------------------------------------------------------------------
(* Delete.                                                                 *)

\* Two neighbours in one node, with the key that separated them in the parent.
Joined(l, r, sep) ==
  IF l.kind = "leaf" THEN Leaf(l.keys \o r.keys, l.vals \o r.vals)
                     ELSE Node(l.keys \o <<sep>> \o r.keys, l.kids \o r.kids)

\* The parent keeps its separator when the pair is split again.
RebalanceChild_KeepsSeparator(f, par, i, ch) ==
  LET si   == IF i > 1 THEN i - 1 ELSE i + 1
      li   == IF si < i THEN si ELSE i
      sib  == f[par.kids[si]]
      pair == Fit(IF si < i THEN Joined(sib, ch, par.keys[li]) ELSE Joined(ch, sib, par.keys[li]))
  IN  [file |-> f \o pair.halves,
       node |-> Node(IF pair.seps = <<>> THEN Splice(par.keys, li, 1, <<>>) ELSE par.keys,
                     Splice(par.kids, li, 2, Pointers(f, pair.halves)))]

\* Child `i` of `par` is to become the underfull `ch`: it is joined with a sibling,
\* and the pair split again when it does not fit one node.
RebalanceChild(f, par, i, ch) ==
  LET si   == IF i > 1 THEN i - 1 ELSE i + 1
      li   == IF si < i THEN si ELSE i
      sib  == f[par.kids[si]]
      pair == Fit(IF si < i THEN Joined(sib, ch, par.keys[li]) ELSE Joined(ch, sib, par.keys[li]))
  IN  [file |-> f \o pair.halves,
       node |-> Node(Splice(par.keys, li, 1, pair.seps),
                     Splice(par.kids, li, 2, Pointers(f, pair.halves)))]

\* Nodes one key short are left alone.
Underfull_OffByOne(n, par) == Len(n.keys) < MinKeys - 1 /\ Len(par.kids) >= 2

Underfull(n, par) == Len(n.keys) < MinKeys /\ Len(par.kids) >= 2

\* The file with what is saved below, and the node to be saved in place of the old one.
DelFromLeaf(f, n, k) ==
  LET i == LowerBound(n.keys, k) IN
  [file |-> f, node |-> Leaf(Splice(n.keys, i, 1, <<>>), Splice(n.vals, i, 1, <<>>))]

DelFromNode(n, i, c) ==
  IF Underfull(c.node, n) THEN RebalanceChild(c.file, n, i, c.node)
  ELSE [file |-> Append(c.file, c.node),
        node |-> Node(n.keys, Splice(n.kids, i, 1, <<Len(c.file) + 1>>))]

\* Nothing where the key is not found.
DelNode(f, ptr, k) ==
  LET del[p \in Nodes(f)] ==
        LET i == UpperBound(f[p].keys, k) IN
        IF f[p].kind = "leaf" THEN {DelFromLeaf(f, n, k) : n \in {m \in {f[p]} : k \in Range(m.keys)}}
                              ELSE {DelFromNode(f[p], i, c) : c \in del[f[p].kids[i]]}
  IN  del[ptr]

\* A root without keys gives way to its only child.
Collapsed(f, n) ==
  LET collapse[p \in Nodes(f)] ==
        IF f[p].kind = "node" /\ f[p].keys = <<>> THEN collapse[f[p].kids[1]] ELSE f[p]
  IN  IF n.kind = "node" /\ n.keys = <<>> THEN collapse[n.kids[1]] ELSE n

\* The files with the new root at their end: none or one.
DeleteRoot(f, root, k) == {Append(r.file, Collapsed(r.file, r.node)) : r \in DelNode(f, root, k)}

-----------------------------------------------------------------------------
(* Reading.                                                                *)

LeafEntries(f, n) == [i \in DOMAIN n.keys |-> <<n.keys[i], ResolveValue(f, n.vals[i])>>]

\* Every entry below a pointer, in the order of the walk of bpt_entries.
Entries(f, ptr) ==
  LET entries[p \in Nodes(f)] ==
        IF f[p].kind = "leaf" THEN LeafEntries(f, f[p])
        ELSE FlattenSeq([i \in DOMAIN f[p].kids |-> entries[f[p].kids[i]]])
  IN  entries[ptr]

\* The values found under a key: at most one.
Search(f, ptr, k) ==
  LET search[p \in Nodes(f)] ==
        IF f[p].kind = "leaf"
        THEN {ResolveValue(f, f[p].vals[i]) : i \in {j \in DOMAIN f[p].keys : f[p].keys[j] = k}}
        ELSE search[f[p].kids[UpperBound(f[p].keys, k)]]
  IN  search[ptr]

InRange(e, min, max) == e[1] >= min /\ e[1] <= max

Within(entries, min, max) ==
  FlattenSeq([i \in DOMAIN entries |-> IF InRange(entries[i], min, max) THEN <<entries[i]>> ELSE <<>>])

\* collect: only the children whose span meets the range are visited.
Collect(f, ptr, min, max) ==
  LET collect[p \in Nodes(f)] ==
        LET lo == UpperBound(f[p].keys, min)
            hi == UpperBound(f[p].keys, max)
        IN  IF f[p].kind = "leaf"
            THEN Within(LeafEntries(f, f[p]), min, max)
            ELSE FlattenSeq([i \in 1..(hi - lo + 1) |-> collect[f[p].kids[lo + i - 1]]])
  IN  collect[ptr]

\* The descent of a cursor: the leaf it comes to and the subtrees still to visit
\* after it, the cursor's stack flattened.
CursorDescend(f, ptr, min) ==
  LET descend[p \in Nodes(f)] ==
        LET i == UpperBound(f[p].keys, min)
            d == descend[f[p].kids[i]]
        IN  IF f[p].kind = "leaf" THEN [leaf |-> f[p], ahead |-> <<>>]
            ELSE [leaf  |-> d.leaf,
                  ahead |-> d.ahead \o SubSeq(f[p].kids, i + 1, Len(f[p].kids))]
  IN  descend[ptr]

-----------------------------------------------------------------------------
(* Bulk load: the nodes of a level are written as they fill up, so each    *)
(* level is cut into full nodes and a rest.                                *)

Chunks(s, n) ==
  [c \in 1..((Len(s) + n - 1) \div n) |->
     SubSeq(s, (c - 1) * n + 1, IF c * n < Len(s) THEN c * n ELSE Len(s))]

\* Values first, then the leaves; a leaf is named by its least key and its pointer.
BulkValues(entries) ==
  LET values[n \in 0..Len(entries)] ==
        IF n = 0 THEN [file |-> <<>>, refs |-> <<>>]
        ELSE LET b == values[n - 1]
                 s == StoreValue(b.file, entries[n][2])
             IN  [file |-> s.file, refs |-> Append(b.refs, <<entries[n][1], s.ref>>)]
  IN  values[Len(entries)]

Column(rows, c) == [i \in DOMAIN rows |-> rows[i][c]]

BulkLeaves(entries) ==
  LET stored == BulkValues(entries)
      rows   == Chunks(stored.refs, Order - 1)
      leaves == [i \in DOMAIN rows |-> Leaf(Column(rows[i], 1), Column(rows[i], 2))]
  IN  [file |-> stored.file \o leaves,
       level |-> [i \in DOMAIN rows |-> <<rows[i][1][1], Len(stored.file) + i>>]]

\* The least key of a child is the separator before it, and a node's first child
\* hands its own up.
BulkLevel(b) ==
  LET rows  == Chunks(b.level, Order)
      nodes == [i \in DOMAIN rows |-> Node(Tail(Column(rows[i], 1)), Column(rows[i], 2))]
  IN  [file  |-> b.file \o nodes,
       level |-> [i \in DOMAIN rows |-> <<rows[i][1][1], Len(b.file) + i>>]]

\* Level by level until one node is left.
BulkLevels(b) ==
  LET levels[n \in 0..Len(b.level)] ==
        IF n = 0 THEN b
        ELSE IF Len(levels[n - 1].level) = 1 THEN levels[n - 1] ELSE BulkLevel(levels[n - 1])
  IN  levels[Len(b.level)]

\* A new file with the entries in order; its last node is the root.
BulkLoad(entries) ==
  IF entries = <<>> THEN <<Leaf(<<>>, <<>>)>> ELSE BulkLevels(BulkLeaves(entries)).file

-----------------------------------------------------------------------------
(* The records of one tree, for the bounds of BPlusTree.                   *)

\* The records below a pointer, each after what it points at.
Listed(f, ptr) ==
  LET list[p \in Nodes(f)] ==
        Append(IF f[p].kind = "leaf"
               THEN FlattenSeq([i \in DOMAIN f[p].vals |->
                      IF f[p].vals[i][1] = "at" THEN <<f[p].vals[i][2]>> ELSE <<>>])
               ELSE FlattenSeq([i \in DOMAIN f[p].kids |-> list[f[p].kids[i]]]), p)
  IN  list[ptr]

\* A file of these records alone.
Kept(f, ptr) ==
  LET ps     == Listed(f, ptr)
      to(p)  == SelectInSeq(ps, LAMBDA q : q = p)
      ref(r) == IF r[1] = "at" THEN <<"at", to(r[2])>> ELSE r
      moved(n) == CASE n.kind = "leaf" -> Leaf(n.keys, [i \in DOMAIN n.vals |-> ref(n.vals[i])])
                    [] n.kind = "node" -> Node(n.keys, [i \in DOMAIN n.kids |-> to(n.kids[i])])
                    [] OTHER           -> n
  IN  [i \in DOMAIN ps |-> moved(f[ps[i]])]

-----------------------------------------------------------------------------
(* bpt_verify.                                                             *)

\* The keys of a node ascend within [lo, hi), it has room for one more, and what
\* it points at was written before it.
NodeVerifies(f, ptr, lo, hi) ==
  LET n == f[ptr] IN
  /\ Len(n.keys) < Order
  /\ \A i \in DOMAIN n.keys :
       /\ i > 1 => n.keys[i - 1] < n.keys[i]
       /\ lo <= n.keys[i] /\ n.keys[i] < hi
  /\ IF n.kind = "leaf"
     THEN \A i \in DOMAIN n.vals : n.vals[i][1] = "at" => n.vals[i][2] < ptr
     ELSE Len(n.kids) = Len(n.keys) + 1 /\ \A i \in DOMAIN n.kids : n.kids[i] < ptr

\* The bounds of child `i` of a node with the bounds b.
ChildBounds(n, i, b) ==
  <<IF i = 1 THEN b[1] ELSE n.keys[i - 1], IF i = Len(n.kids) THEN b[2] ELSE n.keys[i]>>

SubtreeVerifies(f, ptr, lo, hi) ==
  LET verify[p \in Nodes(f)] ==
        [b \in Nat \X Nat |->
           /\ NodeVerifies(f, p, b[1], b[2])
           /\ f[p].kind = "node" =>
                \A i \in DOMAIN f[p].kids : verify[f[p].kids[i]][ChildBounds(f[p], i, b)]]
  IN  verify[ptr][<<lo, hi>>]

LeafDepths(f, ptr) ==
  LET depths[p \in Nodes(f)] ==
        IF f[p].kind = "leaf" THEN {0}
        ELSE UNION {{d + 1 : d \in depths[f[p].kids[i]]} : i \in DOMAIN f[p].kids}
  IN  depths[ptr]

VerifyNode(f, root, size, top) ==
  /\ SubtreeVerifies(f, root, 0, top)
  /\ Cardinality(LeafDepths(f, root)) = 1
  /\ Len(Entries(f, root)) = size
=============================================================================
