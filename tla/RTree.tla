--------------------------------- MODULE RTree ---------------------------------
(***************************************************************************)
(* A tree handle of src/rtree.c: its commits, rewind, clear, compaction    *)
(* and crashes, over files of this version and of older ones.              *)
(*                                                                         *)
(* A commit is a version of the tree with its metadata; the records and    *)
(* their recovery are CommitFile's.  A mutation that fails leaves file and *)
(* handle as they were and is no step here.  The host keeps object ids     *)
(* unique, as rtree.h asks.                                                *)
(***************************************************************************)
EXTENDS RTreeNodes

CONSTANTS
  Place,        \* the places distances are measured from
  Radius,       \* of the searches, in degrees
  Uses          \* what a file is used for, a bound for TLC: the entries stored in it and
                \* whether in the order of their ids alone, the removals, the commits it
                \* keeps, the applied indexes, and whether an older version wrote it too

ASSUME UsesAssumption ==
  \A u \in Uses :
    /\ \A e \in u.entries : e.oid \in Nat /\ e.at[1] \in -90..90 /\ e.at[2] \in -180..180
    /\ u.removals \in Nat /\ u.commits \in 1..3 /\ u.applied \in Nat
    /\ u.ordered \in BOOLEAN /\ u.older \in BOOLEAN

VARIABLES
  file, safe,   \* the commits of the file, and how many a power cut cannot take
  up,           \* whether the tree is open
  root, size, applied,    \* of struct rtree
  here,         \* history: the entries put in and not removed
  removals,     \* counted for their bound
  use           \* what this file is used for

vars == <<file, safe, up, root, size, applied, here, removals, use>>

Commit(r, s, a, es) == [root |-> r, size |-> s, applied |-> a, here |-> es]

\* meta_apply
Adopt(c) == root' = c.root /\ size' = c.size /\ applied' = c.applied /\ here' = c.here

Closed == up' = FALSE /\ root' = None /\ size' = 0 /\ applied' = 0 /\ here' = {}

-----------------------------------------------------------------------------
\* rtree_create, on an empty file.
Create ==
  /\ ~up /\ file = <<>>
  /\ file' = <<Commit(EmptyLeaf, 0, 0, {})>>
  /\ Adopt(file'[1])
  /\ up' = TRUE
  /\ UNCHANGED <<safe, removals, use>>

Open ==
  /\ ~up /\ file # <<>>
  /\ Adopt(Last(file))
  /\ up' = TRUE
  /\ UNCHANGED <<file, safe, removals, use>>

\* A file of one commit drops the earlier ones, that nobody will go back to.
Room == use.commits = 1 \/ Len(file) < use.commits

SaveMetadata(r, s, es) ==
  LET c == Commit(r, s, applied, es) IN
  /\ file' = IF use.commits = 1 THEN <<c>> ELSE Append(file, c)
  /\ root' = r /\ size' = s /\ here' = es
  /\ UNCHANGED <<safe, up, applied, use>>

Insert(e) ==
  /\ up /\ Room
  /\ \A d \in here : d.oid # e.oid
  /\ use.ordered => \A d \in use.entries \ here : e.oid <= d.oid
  /\ UNCHANGED removals
  /\ SaveMetadata(InsertRoot(root, e), size + 1, here \cup {e})

\* What is not found commits nothing.
RemoveFrom(oid, place) ==
  /\ up /\ Room
  /\ removals < use.removals /\ removals' = removals + 1
  /\ LET r == RemoveRoot(root, oid, place) IN
     r # None /\ SaveMetadata(r, size - 1, {e \in here : e.oid # oid})

RemoveOid(oid) == RemoveFrom(oid, None)

RemoveOidAt(oid, place) == RemoveFrom(oid, place)

Clear ==
  /\ up /\ Room
  /\ SaveMetadata(EmptyLeaf, 0, {})
  /\ UNCHANGED removals

\* Staged for the next commit.
SetAppliedIndex(i) ==
  /\ up /\ i >= applied
  /\ applied' = i
  /\ UNCHANGED <<file, safe, up, root, size, here, removals, use>>

\* rtree_rewind; to where the file ends it changes nothing.
Rewind(n) ==
  /\ up /\ use.commits > 1 /\ n < Len(file)
  /\ file' = SubSeq(file, 1, n) /\ safe' = Least(safe, n)
  /\ Adopt(file[n])
  /\ UNCHANGED <<up, removals, use>>

\* clone_node: every node gets its children's boxes from the children.
RECURSIVE Cloned(_)
Cloned(n) ==
  IF n.leaf THEN n
  ELSE [n EXCEPT !.items = [i \in DOMAIN n.items |-> NodeItem(Cloned(n.items[i].item))]]

\* rtree_compact, and the host's switch to the synced copy.
Compact ==
  /\ up
  /\ file' = <<Commit(Cloned(root), size, applied, here)>>
  /\ safe' = 1
  /\ Adopt(file'[1])
  /\ UNCHANGED <<up, removals, use>>

-----------------------------------------------------------------------------
\* A power cut, or the end of the process: a suffix of the unsynced commits goes.
Crash ==
  /\ use.commits > 1
  /\ \E n \in safe..Len(file) : file' = SubSeq(file, 1, n)
  /\ Closed
  /\ UNCHANGED <<safe, removals, use>>

\* The host flushes the file.
Sync ==
  /\ up /\ use.commits > 1
  /\ safe' = Len(file)
  /\ UNCHANGED <<file, up, root, size, applied, here, removals, use>>

RECURSIVE Unboxed(_)
Unboxed(n) ==
  IF n.leaf THEN n
  ELSE [n EXCEPT !.items = [i \in DOMAIN n.items |-> [box |-> None, item |-> Unboxed(n.items[i].item)]]]

\* An older version wrote the file: no node holds its children's boxes.
OlderFile ==
  /\ use.older /\ up /\ file # <<>>
  /\ file' = [i \in DOMAIN file |-> [file[i] EXCEPT !.root = Unboxed(@)]]
  /\ Closed
  /\ UNCHANGED <<safe, removals, use>>

\* A bound for TLC: nobody goes back to the commits before the last.
Forget ==
  /\ up /\ safe = Len(file) /\ Len(file) > 1
  /\ file' = <<Last(file)>> /\ safe' = 1
  /\ UNCHANGED <<up, root, size, applied, here, removals, use>>

Init ==
  /\ file = <<>> /\ safe = 0
  /\ up = FALSE
  /\ root = None /\ size = 0 /\ applied = 0
  /\ here = {} /\ removals = 0
  /\ use \in Uses

Next ==
  \/ Create \/ Open \/ Clear \/ Compact \/ Crash \/ Sync \/ OlderFile \/ Forget
  \/ \E e \in use.entries : Insert(e) \/ RemoveOid(e.oid) \/ RemoveOidAt(e.oid, e.at)
  \/ \E i \in 1..use.applied : SetAppliedIndex(i)
  \/ \E n \in DOMAIN file : Rewind(n)

Spec == Init /\ [][Next]_vars

-----------------------------------------------------------------------------
(* Correctness.                                                            *)

RECURSIVE Depths(_)
Depths(n) ==
  IF n.leaf THEN {0} ELSE UNION {{d + 1 : d \in Depths(n.items[i].item)} : i \in DOMAIN n.items}

\* Every node holds at most MaxEntries, an internal one at least one.  A box covers the
\* boxes below it, and what a parent has recorded of a child is the child's.
RECURSIVE NodeVerifies(_)
NodeVerifies(n) ==
  /\ Len(n.items) <= MaxEntries
  /\ \A i \in DOMAIN n.items :
       LET b == ChildBox(n, i) IN
       /\ b.valid => n.box.valid /\ BoxUnion(n.box, b) = n.box
       /\ ~n.leaf => b = n.items[i].item.box /\ NodeVerifies(n.items[i].item)
  /\ ~n.leaf => n.items # <<>>

\* The handle stands on the last commit, and its tree and every version in the file are
\* well made: all leaves at one depth, no node too large, every box over what is below.
TreeVerifies ==
  /\ safe \in 0..Len(file)
  /\ up => LET c == file[Len(file)] IN
           root = c.root /\ size = c.size /\ here = c.here /\ applied >= c.applied
  /\ \A i \in DOMAIN file :
       /\ Cardinality(Depths(file[i].root)) = 1
       /\ NodeVerifies(file[i].root)

\* Splitting, borrowing, merging and collapsing lose no entry and double none, however
\* often, and each can be removed by its id, with its place or without.
NothingLost ==
  up => /\ ToSet(Entries(root)) = here
        /\ size = Cardinality(here) /\ Len(Entries(root)) = size
        /\ \A e \in here : \A place \in {None, e.at} :
             LET r == RemoveRoot(root, e.oid, place) IN
             r # None /\ ToSet(Entries(r)) = here \ {e}

\* A box with two places at its corners.
Between(a, b) ==
  Box([d \in 1..2 |-> Least(a[d], b[d])], [d \in 1..2 |-> Greatest(a[d], b[d])])

Inside(at, q) == \A d \in 1..2 : q.min[d] <= at[d] /\ at[d] <= q.max[d]

\* A search by box, which follows the boxes, finds what a walk over all leaves finds,
\* those on the edge of the box included, and a cursor gives the same in the same order.
SearchesAgree ==
  up => \A d, e \in use.entries :
    LET q == Between(d.at, e.at)
        found == SelectSeq(Entries(root), LAMBDA x : Inside(x.at, q))
    IN  SearchBox(root, q) = found /\ CursorEntries(root, q) = found

\* From a place on the equator, or with a pole inside the circle, a search by radius
\* looks at every entry within it, across the antimeridian too, and at none twice.
RadiusFinds ==
  up => \A p \in Place, deg \in Radius :
    p[1] = 0 \/ p[1] + deg >= 90 \/ p[1] - deg <= -90 =>
      \A e \in here :
        LET boxes == {q \in RadiusBoxes(p, deg) : e \in ToSet(SearchBox(root, q))} IN
        /\ Cardinality(boxes) <= 1
        /\ Haversine(p, e.at) + Rounding < 1000 - Cos(deg) => boxes # {}

Ascends(s, p) ==
  \A i, j \in DOMAIN s : i < j => Haversine(p, s[i].at) <= Haversine(p, s[j].at) + Rounding

\* On the equator, among entries within a quarter of the globe to the east and the west,
\* the nearest come first, across the antimeridian too, and all of them come.
NearestAscends ==
  up => \A p \in Place :
    p[1] = 0 /\ (\A e \in here : Cos(e.at[2] - p[2]) >= 0) =>
      LET s == NearestEntries(root, p) IN
      Ascends(s, p) /\ ToSet(s) = here /\ Len(s) = Cardinality(here)
=============================================================================
