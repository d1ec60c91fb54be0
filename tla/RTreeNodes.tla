------------------------------- MODULE RTreeNodes -------------------------------
(***************************************************************************)
(* The algorithms of src/rtree.c on trees of boxes: insert with the        *)
(* quadratic split, remove with borrowing and merging, the searches by     *)
(* box, by radius and for the nearest, and the walk of a cursor.           *)
(*                                                                         *)
(* A record of the file never changes once it is written, so a pointer is  *)
(* the subtree it points at.  A place is <<latitude, longitude>> in whole  *)
(* degrees.  Node ids and the encoding are left out.                       *)
(***************************************************************************)
EXTENDS Integers, FiniteSets, SequencesExt

CONSTANTS MaxEntries,     \* the most a node holds
          None

\* With a fanout of two a merge can split a node whose boxes were never set.
ASSUME FanoutAssumption == MaxEntries \in Nat /\ MaxEntries >= 3

MinEntries == LET half == (MaxEntries + 1) \div 2 IN IF half < 2 THEN 2 ELSE half

-----------------------------------------------------------------------------
(* Boxes.                                                                  *)

Box(min, max) == [valid |-> TRUE, min |-> min, max |-> max]
PointBox(at) == Box(at, at)

\* The box of nothing; its corners are what a record that holds none is read as.
NullBox == [valid |-> FALSE, min |-> <<0, 0>>, max |-> <<0, 0>>]

Least(i, j) == IF i < j THEN i ELSE j
Greatest(i, j) == IF i > j THEN i ELSE j

Area(b) == (b.max[1] - b.min[1]) * (b.max[2] - b.min[2])

BoxUnion(a, b) ==
  Box([d \in 1..2 |-> Least(a.min[d], b.min[d])], [d \in 1..2 |-> Greatest(a.max[d], b.max[d])])

Enlargement(a, b) == Area(BoxUnion(a, b)) - Area(a)

\* Touching is not enough.
Intersects_Open(a, b) == \A d \in 1..2 : a.max[d] > b.min[d] /\ a.min[d] <= b.max[d]

Intersects(a, b) == \A d \in 1..2 : a.max[d] >= b.min[d] /\ a.min[d] <= b.max[d]

Meets(q, b) == b.valid /\ Intersects(q, b)

-----------------------------------------------------------------------------
(* Nodes.  A leaf holds entries and an internal node holds children, each  *)
(* with its box; the nodes of older files hold no boxes of their children. *)

EntryItem(e) == [box |-> PointBox(e.at), item |-> e]
NodeItem(n) == [box |-> n.box, item |-> n]

ChildBox(n, i) == IF n.items[i].box = None THEN n.items[i].item.box ELSE n.items[i].box

\* ensure_child_bboxes
Boxed(n) == [n EXCEPT !.items = [i \in DOMAIN n.items |-> [n.items[i] EXCEPT !.box = ChildBox(n, i)]]]

\* An empty child makes it start again.
ComputeBox_ForgetsAtNull(items) ==
  FoldLeft(LAMBDA acc, x : IF acc.valid /\ x.box.valid THEN BoxUnion(acc, x.box) ELSE x.box,
           NullBox, items)

\* The union of the boxes that are not null.
ComputeBox(items) ==
  FoldLeft(LAMBDA acc, x : IF ~x.box.valid THEN acc ELSE IF acc.valid THEN BoxUnion(acc, x.box) ELSE x.box,
           NullBox, items)

\* A node with its box.
Made(leaf, items) == [leaf |-> leaf, items |-> items, box |-> ComputeBox(items)]

EmptyLeaf == Made(TRUE, <<>>)

\* Child or entry i of a node replaced.
Put(items, i, x) == [j \in DOMAIN items |-> IF j = i THEN x ELSE items[j]]

\* Every entry below a node, in the order of the leaves.
RECURSIVE Entries(_)
Entries(n) ==
  IF n.leaf THEN [i \in DOMAIN n.items |-> n.items[i].item]
  ELSE FlattenSeq([i \in DOMAIN n.items |-> Entries(n.items[i].item)])

-----------------------------------------------------------------------------
(* Insert.  Its result is the one or the two nodes that take a node's      *)
(* place.                                                                  *)

\* The first of the pairs with the largest union.
Seeds(items) ==
  LET n     == Len(items)
      pairs == {<<i, j>> \in (1..n) \X (1..n) : i < j}
      size  == [p \in pairs |-> Area(BoxUnion(items[p[1]].box, items[p[2]].box))]
      most  == {p \in pairs : \A r \in pairs : size[r] <= size[p]}
  IN  CHOOSE p \in most : \A r \in most : p[1] < r[1] \/ (p[1] = r[1] /\ p[2] <= r[2])

\* Each of the others goes to the group that grows less.  A group that is all null
\* boxes grows by nothing.
Groups(items) ==
  LET seeds == Seeds(items)
      Growth(b, x) == IF b.valid THEN Enlargement(b, x.box) ELSE 0
      Assign(g, i) ==
        IF i \in g.one \cup g.two THEN g
        ELSE LET x == items[i]
                 a == Growth(g.box1, x)
                 b == Growth(g.box2, x)
             IN  IF a < b \/ (a = b /\ Cardinality(g.one) <= Cardinality(g.two))
                 THEN [g EXCEPT !.one = @ \cup {i}, !.box1 = BoxUnion(@, x.box)]
                 ELSE [g EXCEPT !.two = @ \cup {i}, !.box2 = BoxUnion(@, x.box)]
  IN  FoldLeft(Assign, [one  |-> {seeds[1]}, two |-> {seeds[2]},
                        box1 |-> items[seeds[1]].box, box2 |-> items[seeds[2]].box],
               [i \in DOMAIN items |-> i])

SplitNode(leaf, items) ==
  LET g == Groups(items)
      Half(is, b) == [leaf  |-> leaf, box |-> b,
                      items |-> [i \in 1..Cardinality(is) |->
                                   items[CHOOSE j \in is : Cardinality({k \in is : k <= j}) = i]]]
  IN  <<NodeItem(Half(g.one, g.box1)), NodeItem(Half(g.two, g.box2))>>

Fit(leaf, items) ==
  IF Len(items) > MaxEntries THEN SplitNode(leaf, items) ELSE <<NodeItem(Made(leaf, items))>>

\* The child that grows least, then the smallest, then the first.
ChooseSubtree(n, b) ==
  LET grows(i) == Enlargement(ChildBox(n, i), b)
      better(i, j) == \/ grows(i) < grows(j)
                      \/ grows(i) = grows(j) /\ Area(ChildBox(n, i)) < Area(ChildBox(n, j))
  IN  CHOOSE i \in DOMAIN n.items :
        \A j \in DOMAIN n.items : i # j => better(i, j) \/ (i < j /\ ~better(j, i))

RECURSIVE InsertNode(_, _)
InsertNode(n, e) ==
  IF n.leaf THEN Fit(TRUE, Append(n.items, EntryItem(e)))
  ELSE LET m == Boxed(n)
           i == ChooseSubtree(m, PointBox(e.at))
           c == InsertNode(m.items[i].item, e)
       IN  Fit(FALSE, Put(m.items, i, c[1]) \o Tail(c))

InsertRoot(root, e) ==
  LET r == InsertNode(root, e) IN IF Len(r) = 2 THEN Made(FALSE, r) ELSE r[1].item

-----------------------------------------------------------------------------
(* Remove.                                                                 *)

Without(s, is) == LET keep == {i \in DOMAIN s : i \notin is} IN
  [i \in 1..Cardinality(keep) |-> s[CHOOSE j \in keep : Cardinality({k \in keep : k <= j}) = i]]

\* Children i and j share what they had, `all`, in halves.
Shared(par, i, j, leaf, all) ==
  LET mid == (Len(all) + 1) \div 2
      Half(from, to) == NodeItem(Made(leaf, SubSeq(all, from, to)))
  IN  Put(Put(par.items, Least(i, j), Half(1, mid)), Greatest(i, j), Half(mid + 1, Len(all)))

\* Children i and j become one, at the end.  (In the variant j stays as well.)
Merged_KeepsSibling(par, i, j, leaf, all) == Without(par.items, {i}) \o Fit(leaf, all)
Merged(par, i, j, leaf, all) == Without(par.items, {i, j}) \o Fit(leaf, all)

\* The children of `par` when its child `i` has become the underfull `ch`: a sibling
\* with more than it needs shares with it, else it is merged with the first.
HandleUnderflow(par, i, ch) ==
  LET sibs == SelectSeq(<<i - 1, i + 1>>, LAMBDA j : j \in DOMAIN par.items)
      rich == SelectSeq(sibs, LAMBDA j : Len(par.items[j].item.items) > MinEntries)
      all(j) == Boxed(ch).items \o Boxed(par.items[j].item).items
  IN  IF rich # <<>> THEN Shared(par, i, rich[1], ch.leaf, all(rich[1]))
      ELSE IF sibs # <<>> THEN Merged(par, i, sibs[1], ch.leaf, all(sibs[1]))
      ELSE Put(par.items, i, NodeItem(ch))

\* A node that has just lost its last child is left as it is.
Underflow(n) == Len(n.items) < MinEntries /\ Len(n.items) > 0

\* The first entry of that id, of those below the boxes that hold the place when one
\* is given.
RECURSIVE RemoveNode(_, _, _)
RemoveNode(n, oid, place) ==
  IF n.leaf
  THEN LET is == {i \in DOMAIN n.items : n.items[i].item.oid = oid}
           i  == CHOOSE j \in is : \A k \in is : j <= k
       IN  IF is = {} THEN None ELSE Made(TRUE, Without(n.items, {i}))
  ELSE LET try  == [i \in DOMAIN n.items |->
                      IF place # None /\ ~Meets(PointBox(place), ChildBox(n, i)) THEN None
                      ELSE RemoveNode(n.items[i].item, oid, place)]
           is   == {i \in DOMAIN try : try[i] # None}
           i    == CHOOSE j \in is : \A k \in is : j <= k
           m    == Boxed(n)
       IN  IF is = {} THEN None
           ELSE Made(FALSE, IF Underflow(try[i]) THEN HandleUnderflow(m, i, try[i])
                            ELSE Put(m.items, i, NodeItem(try[i])))

\* An internal root of one child gives way to it.
RemoveRoot(root, oid, place) ==
  LET n == RemoveNode(root, oid, place) IN
  IF n # None /\ Underflow(n) /\ ~n.leaf /\ Len(n.items) = 1 THEN n.items[1].item ELSE n

-----------------------------------------------------------------------------
(* Searches.                                                               *)

\* search_rec: a child is visited when the box its parent has for it meets the query.
RECURSIVE SearchBox(_, _)
SearchBox(n, q) ==
  IF ~Meets(q, n.box) THEN <<>>
  ELSE IF n.leaf THEN SelectSeq(Entries(n), LAMBDA e : Intersects(q, PointBox(e.at)))
  ELSE FlattenSeq([i \in DOMAIN n.items |->
                     IF Meets(q, ChildBox(n, i)) THEN SearchBox(n.items[i].item, q) ELSE <<>>])

\* A cursor has what is left of a leaf and the children ahead, its stack flattened.
Visit(n, q, ahead) ==
  IF ~Meets(q, n.box) THEN [rest |-> <<>>, ahead |-> ahead]
  ELSE IF n.leaf THEN [rest |-> Entries(n), ahead |-> ahead]
  ELSE [rest |-> <<>>, ahead |-> [i \in DOMAIN n.items |-> <<ChildBox(n, i), n.items[i].item>>] \o ahead]

\* All a cursor gives.
RECURSIVE CursorWalk(_, _)
CursorWalk(c, q) ==
  SelectSeq(c.rest, LAMBDA e : Intersects(q, PointBox(e.at)))
    \o IF c.ahead = <<>> THEN <<>>
       ELSE LET x == Head(c.ahead) IN
            CursorWalk(IF Meets(q, x[1]) THEN Visit(x[2], q, Tail(c.ahead))
                       ELSE [rest |-> <<>>, ahead |-> Tail(c.ahead)], q)

CursorEntries(root, q) == CursorWalk(Visit(root, q, <<>>), q)

-----------------------------------------------------------------------------
(* Distances on the globe: an angle in degrees, multiples of five, has its *)
(* cosine in thousandths.                                                  *)

CosTable == <<1000, 996, 985, 966, 940, 906, 866, 819, 766, 707,
              643, 574, 500, 423, 342, 259, 174, 87, 0>>

Absolute(i) == IF i < 0 THEN -i ELSE i

Cos(deg) ==
  LET a == Absolute(deg) % 360
      b == IF a > 180 THEN 360 - a ELSE a
  IN  IF b <= 90 THEN CosTable[b \div 5 + 1] ELSE -CosTable[(180 - b) \div 5 + 1]

\* Twice the square of the sine of half the angle between two places, in thousandths:
\* it grows with geo_haversine_distance.
Haversine(p, q) ==
  1000 - Cos(q[1] - p[1]) + (Cos(p[1]) * Cos(q[1]) * (1000 - Cos(q[2] - p[2]))) \div 1000000

\* The error of a rounded Haversine.
Rounding == 4

Clamp(x, min, max) == IF x < min THEN min ELSE IF x > max THEN max ELSE x

\* A box on the other side of the antimeridian is far away.
MinDist_OneWay(p, b) ==
  Haversine(p, <<Clamp(p[1], b.min[1], b.max[1]), Clamp(p[2], b.min[2], b.max[2])>>)

\* mindist_to_box: from the place to the place clamped into the box, east or west
\* about.
MinDist(p, b) ==
  LET lat    == Clamp(p[1], b.min[1], b.max[1])
      around == {Haversine(p, <<lat, Clamp(p[2] + turn, b.min[2], b.max[2])>>) : turn \in {-360, 0, 360}}
  IN  CHOOSE d \in around : \A e \in around : d <= e

\* Best first: the nearest of what is known is a node that is opened or an entry that
\* is given.
RECURSIVE Nearest(_, _)
Nearest(heap, p) ==
  IF heap = {} THEN <<>>
  ELSE LET x    == CHOOSE y \in heap : \A z \in heap : y.dist <= z.dist
           rest == heap \ {x}
       IN  IF x.entry THEN <<x.item>> \o Nearest(rest, p)
           ELSE LET n == x.item
                    open == {i \in DOMAIN n.items : n.leaf \/ ChildBox(n, i).valid}
                IN  Nearest(rest \cup {[entry |-> n.leaf, item |-> n.items[i].item,
                                        dist |-> IF n.leaf THEN Haversine(p, n.items[i].item.at)
                                                 ELSE MinDist(p, ChildBox(n, i))] : i \in open}, p)

\* rtree_nearest for every entry the tree has; for fewer it stops earlier.
NearestEntries(root, p) == Nearest({[entry |-> FALSE, item |-> root, dist |-> 0]}, p)

\* The antimeridian cuts the circle off.
RadiusBoxes_Cut(p, deg) ==
  LET wide == (deg * 1000) \div Cos(p[1]) IN
  {Box(<<Greatest(p[1] - deg, -90), Greatest(p[2] - wide, -180)>>,
       <<Least(p[1] + deg, 90), Least(p[2] + wide, 180)>>)}

\* The boxes that rtree_search_radius looks into, for a radius of 111 km to the degree:
\* all longitudes at a pole, two boxes across the antimeridian.
RadiusBoxes(p, deg) ==
  LET south == Greatest(p[1] - deg, -90)
      north == Least(p[1] + deg, 90)
      wide  == (deg * 1000) \div Cos(p[1])
      west  == p[2] - wide
      east  == p[2] + wide
  IN  IF south = -90 \/ north = 90 \/ 2 * wide >= 360 THEN {Box(<<south, -180>>, <<north, 180>>)}
      ELSE IF west < -180 THEN {Box(<<south, west + 360>>, <<north, 180>>), Box(<<south, -180>>, <<north, east>>)}
      ELSE IF east > 180 THEN {Box(<<south, west>>, <<north, 180>>), Box(<<south, -180>>, <<north, east - 360>>)}
      ELSE {Box(<<south, west>>, <<north, east>>)}
=============================================================================
