------------------------------- MODULE BPlusTree -------------------------------
(***************************************************************************)
(* A tree handle of src/bplustree.c over the file layer of CommitFile: its *)
(* commits, the snapshots and cursors that read old roots while it goes    *)
(* on, rewind, reset, compaction, crashes.                                 *)
(*                                                                         *)
(* A mutation that fails leaves the file and the handle as they were and   *)
(* is no step here.  The host opens one handle on a file, ends its readers *)
(* before it shortens or replaces the file (bplustree.h), and syncs a      *)
(* compacted copy before it takes it for the file.                         *)
(***************************************************************************)
EXTENDS BPlusNodes

CONSTANTS
  MaxKey, Value, MaxApplied, Snaps, Cursors, None,   \* as in VersionedMap
  Uses,         \* what a file is used for, a bound for TLC: the keys and values stored
                \* in it, the last applied index and whether it has readers
  MaxCommits    \* a bound for TLC: commits in the file

ASSUME MapAssumption == MaxKey \in Nat /\ MaxApplied \in Nat

ASSUME UsesAssumption ==
  Uses \subseteq [keys : SUBSET (1..MaxKey), values : SUBSET Value,
                 applied : 0..MaxApplied, read : BOOLEAN]

VARIABLES
  file, safe,   \* the records of the file, and how many a power cut cannot take
  up,           \* whether the tree is open
  root, size, applied,    \* of struct bpt
  snaps,        \* the open snapshots: root and size of each
  cursors,      \* the open cursors
  packed,       \* history: whether the file began as a bulk load
  use           \* what this file is used for

vars == <<file, safe, up, root, size, applied, snaps, cursors, packed, use>>

CF == INSTANCE CommitFile WITH Batches <- {}

Metadata(r, s, a) == [kind |-> "meta", root |-> r, size |-> s, applied |-> a]

\* The commits in the file, and their metadata.
Boundaries == CF!CommitEnds(file) \ {0}

Commits(f) ==
  FlattenSeq([i \in DOMAIN f |-> IF f[i].kind = "meta" THEN <<f[i]>> ELSE <<>>])

NoReader == (\A s \in Snaps : snaps[s] = None) /\ (\A c \in Cursors : cursors[c] = None)

-----------------------------------------------------------------------------
(* Opening.                                                                *)

EmptyFile(a) == <<Leaf(<<>>, <<>>), Metadata(1, 0, a)>>

\* meta_apply
Adopt(m) == root' = m.root /\ size' = m.size /\ applied' = m.applied

\* bpt_create, on an empty file.
Create ==
  /\ ~up /\ file = <<>>
  /\ file' = EmptyFile(0)
  /\ Adopt(file'[2])
  /\ up' = TRUE /\ packed' = FALSE
  /\ UNCHANGED <<safe, snaps, cursors>>

\* The applied index is not read back.
Open_ForgetsApplied ==
  /\ ~up /\ file # <<>>
  /\ root' = file[Len(file)].root /\ size' = file[Len(file)].size
  /\ up' = TRUE
  /\ UNCHANGED <<file, safe, applied, snaps, cursors, packed>>

\* bpt_open: the file ends with a whole commit.
Open ==
  /\ ~up /\ file # <<>>
  /\ Adopt(file[Len(file)])
  /\ up' = TRUE
  /\ UNCHANGED <<file, safe, snaps, cursors, packed>>

-----------------------------------------------------------------------------
(* Mutations.                                                              *)

\* `f` ends with the new root; the metadata record follows and all of it is one
\* commit.
SaveMetadata(f, s) ==
  /\ file' = Append(f, Metadata(Len(f), s, applied))
  /\ root' = Len(f) /\ size' = s
  /\ UNCHANGED <<safe, up, applied, snaps, cursors, packed>>

Room == Cardinality(Boundaries) < MaxCommits

Add(k, v) ==
  /\ up /\ Room
  /\ LET r == AddRoot(file, root, k, v) IN
     SaveMetadata(r.file, IF r.updated THEN size ELSE size + 1)

\* Deleting a key that is not there commits nothing.
Delete(k) ==
  /\ up /\ Room
  /\ \E f \in DeleteRoot(file, root, k) : SaveMetadata(f, size - 1)

\* Staged for the next commit.
SetAppliedIndex(i) ==
  /\ up /\ i >= applied
  /\ applied' = i
  /\ UNCHANGED <<file, safe, up, root, size, snaps, cursors, packed>>

Sync ==
  /\ up
  /\ safe' = Len(file)
  /\ UNCHANGED <<file, up, root, size, applied, snaps, cursors, packed>>

-----------------------------------------------------------------------------
(* Going back and starting over.                                           *)

Cut(n) ==
  /\ file' = SubSeq(file, 1, n)
  /\ safe' = IF safe > n THEN n ELSE safe

\* The file is cut and the state in memory is not read back.
Rewind_KeepsState(n) ==
  /\ up /\ NoReader
  /\ n < Len(file)
  /\ Cut(n)
  /\ UNCHANGED <<up, root, size, applied, snaps, cursors, packed>>

\* A rewind to where the file ends changes nothing, the staged applied index included.
Rewind(n) ==
  /\ up /\ NoReader
  /\ n < Len(file)
  /\ Cut(n) /\ Adopt(file[n])
  /\ UNCHANGED <<up, snaps, cursors, packed>>

\* The staged applied index is carried over.
Reset ==
  /\ up /\ NoReader
  /\ file' = EmptyFile(applied) /\ safe' = 0
  /\ root' = 1 /\ size' = 0
  /\ packed' = FALSE
  /\ UNCHANGED <<up, applied, snaps, cursors>>

\* bpt_compact, and the host's switch to the copy.
Compact ==
  /\ up /\ NoReader
  /\ LET es == Entries(file, root)
         f  == BulkLoad(es)
     IN  /\ file' = Append(f, Metadata(Len(f), Len(es), applied))
         /\ root' = Len(f) /\ size' = Len(es)
  /\ safe' = Len(file')
  /\ packed' = TRUE
  /\ UNCHANGED <<up, applied, snaps, cursors>>

-----------------------------------------------------------------------------
(* Snapshots and cursors.                                                  *)

\* bpt_snapshot for the last commit, bpt_open_at for an earlier one.
TakeSnapshot(s, n) ==
  /\ up /\ snaps[s] = None
  /\ snaps' = [snaps EXCEPT ![s] = [root |-> file[n].root, size |-> file[n].size]]
  /\ UNCHANGED <<file, safe, up, root, size, applied, cursors, packed>>

\* The cursor starts past its lower bound.
OpenCursor_PastMin(c, r, min, max) ==
  /\ up /\ cursors[c] = None
  /\ LET d == CursorDescend(file, r, min) IN
     cursors' = [cursors EXCEPT ![c] =
       [leaf |-> d.leaf, pos |-> UpperBound(d.leaf.keys, min), ahead |-> d.ahead,
        min |-> min, max |-> max, last |-> None]]
  /\ UNCHANGED <<file, safe, up, root, size, applied, snaps, packed>>

\* An open end is a bound at the end of the keys.
OpenCursor(c, r, min, max) ==
  /\ up /\ cursors[c] = None
  /\ LET d == CursorDescend(file, r, min) IN
     cursors' = [cursors EXCEPT ![c] =
       [leaf |-> d.leaf, pos |-> LowerBound(d.leaf.keys, min), ahead |-> d.ahead,
        min |-> min, max |-> max, last |-> None]]
  /\ UNCHANGED <<file, safe, up, root, size, applied, snaps, packed>>

Done(cur) == [cur EXCEPT !.leaf = Leaf(<<>>, <<>>), !.pos = 1, !.ahead = <<>>, !.last = None]

\* At the end of a leaf, the next subtree.
Skip(cur) ==
  IF cur.pos <= Len(cur.leaf.keys) \/ cur.ahead = <<>> THEN cur
  ELSE LET d == CursorDescend(file, Head(cur.ahead), 0) IN
       [cur EXCEPT !.leaf = d.leaf, !.pos = 1, !.ahead = d.ahead \o Tail(cur.ahead)]

\* There are no more leaves to skip, empty ones, than nodes ahead.
Skipped(cur) ==
  LET most == Len(FlattenSeq([i \in DOMAIN cur.ahead |-> Listed(file, cur.ahead[i])]))
      skip[n \in 0..most] == IF n = 0 THEN cur ELSE Skip(skip[n - 1])
  IN  skip[most]

Advanced(cur) ==
  LET at == Skipped(cur) IN
  IF at.pos > Len(at.leaf.keys) \/ at.leaf.keys[at.pos] > at.max THEN Done(at)
  ELSE [at EXCEPT !.last = LeafEntries(file, at.leaf)[at.pos], !.pos = @ + 1]

CursorNext(c) ==
  /\ cursors[c] # None
  /\ cursors' = [cursors EXCEPT ![c] = Advanced(@)]
  /\ UNCHANGED <<file, safe, up, root, size, applied, snaps, packed>>

CloseCursor(c) ==
  /\ cursors[c] # None
  /\ cursors' = [cursors EXCEPT ![c] = None]
  /\ UNCHANGED <<file, safe, up, root, size, applied, snaps, packed>>

FreeSnapshot(s) ==
  /\ snaps[s] # None
  /\ snaps' = [snaps EXCEPT ![s] = None]
  /\ UNCHANGED <<file, safe, up, root, size, applied, cursors, packed>>

Roots == {root} \cup {snaps[s].root : s \in {t \in Snaps : snaps[t] # None}}

-----------------------------------------------------------------------------
Init ==
  /\ file = <<>> /\ safe = 0
  /\ up = FALSE
  /\ root = 0 /\ size = 0 /\ applied = 0
  /\ snaps = [s \in Snaps |-> None] /\ cursors = [c \in Cursors |-> None]
  /\ packed = FALSE
  /\ use \in Uses

\* A power cut, or the end of the process.
Crash ==
  /\ \E n \in CF!CrashPoints(file, safe) : file' = SubSeq(file, 1, n)
  /\ up' = FALSE
  /\ root' = 0 /\ size' = 0 /\ applied' = 0
  /\ snaps' = [s \in Snaps |-> None] /\ cursors' = [c \in Cursors |-> None]
  /\ UNCHANGED <<safe, packed>>

\* A bound for TLC: the records of earlier commits are dropped once nobody goes
\* back to them.
Forget ==
  /\ up /\ NoReader /\ safe = Len(file)
  /\ LET f == Kept(file, root) IN
     /\ file' = Append(f, [file[Len(file)] EXCEPT !.root = Len(f)])
     /\ safe' = Len(file')
     /\ root' = Len(f)
  /\ UNCHANGED <<up, size, applied, snaps, cursors, packed>>

Next ==
  /\ \/ Create \/ Open \/ Sync \/ Reset \/ Compact \/ Crash \/ Forget
     \/ \E k \in use.keys : Delete(k) \/ \E v \in use.values : Add(k, v)
     \/ \E i \in 1..use.applied : SetAppliedIndex(i)
     \/ \E n \in Boundaries : Rewind(n) \/ \E s \in Snaps : use.read /\ TakeSnapshot(s, n)
     \/ \E s \in Snaps : FreeSnapshot(s)
     \/ \E c \in Cursors :
          \/ CursorNext(c) \/ CloseCursor(c)
          \/ use.read /\ \E r \in Roots, min, max \in use.keys : OpenCursor(c, r, min, max)
  /\ UNCHANGED use

Spec == Init /\ [][Next]_vars

-----------------------------------------------------------------------------
(* Correctness.                                                            *)

IsNode(f, p) == p \in DOMAIN f /\ f[p].kind \in {"leaf", "node"}

\* The variables keep their types: an open handle and its readers stand on nodes of
\* the file, and the handle's state is that of the last commit.
TypeOK ==
  /\ \A i \in DOMAIN file : file[i].kind \in {"leaf", "node", "value", "meta"}
  /\ safe \in Nat /\ applied \in 0..MaxApplied
  /\ file # <<>> => file[Len(file)].kind = "meta"
  /\ up => /\ IsNode(file, root)
           /\ root = file[Len(file)].root /\ size = file[Len(file)].size
  /\ \A s \in Snaps : snaps[s] # None => IsNode(file, snaps[s].root)
  /\ \A c \in Cursors : cursors[c] # None =>
       \A i \in DOMAIN cursors[c].ahead : IsNode(file, cursors[c].ahead[i])

\* bpt_verify passes on the live tree, on every snapshot and on every version in the
\* file.
VersionsVerify ==
  /\ up => VerifyNode(file, root, size, MaxKey + 1)
  /\ \A n \in Boundaries : VerifyNode(file, file[n].root, file[n].size, MaxKey + 1)
  /\ \A s \in Snaps : snaps[s] # None =>
       VerifyNode(file, snaps[s].root, snaps[s].size, MaxKey + 1)

ChildrenFilled(f, ptr) ==
  LET filled[p \in Nodes(f)] ==
        f[p].kind = "node" =>
          \A i \in DOMAIN f[p].kids :
            Len(f[f[p].kids[i]].keys) >= MinKeys /\ filled[f[p].kids[i]]
  IN  filled[ptr]

\* Deleting never leaves a sparse node behind: in a tree that was not bulk loaded,
\* every node but the root holds MinKeys keys.
Filled == up /\ ~packed => ChildrenFilled(file, root)

\* A long sequence of operations keeps every tree in shape.
InShape == VersionsVerify /\ Filled

\* Search and range scan, which follow the separators, find what a walk over all
\* leaves finds.
ReadsAgree ==
  up => LET all == Entries(file, root) IN
    /\ \A k \in use.keys : Search(file, root, k) = {e[2] : e \in {d \in ToSet(all) : d[1] = k}}
    /\ \A min \in use.keys, max \in use.keys :
         min <= max => Collect(file, root, min, max) = Within(all, min, max)

\* Whatever is rewound, reopened or compacted, no commit records a smaller applied
\* index than one before it in the file, nor than the handle will: a replay that
\* resumes from the last one skips nothing an earlier commit had.
AppliedAscends ==
  \A m, n \in Boundaries :
    m <= n => file[m].applied <= file[n].applied /\ (up => file[n].applied <= applied)

MapOf(f, ptr) ==
  LET es == Entries(f, ptr) IN
  [k \in {es[i][1] : i \in DOMAIN es} |-> es[CHOOSE i \in DOMAIN es : es[i][1] = k][2]]

\* What a cursor still has to give.
Rest(cur) ==
  Within(SubSeq(LeafEntries(file, cur.leaf), cur.pos, Len(cur.leaf.keys))
           \o FlattenSeq([i \in DOMAIN cur.ahead |-> Entries(file, cur.ahead[i])]), 0, cur.max)

Abstract == INSTANCE VersionedMap WITH
  hist    <- LET cs == Commits(file) IN
             [i \in DOMAIN cs |-> [map |-> MapOf(file, cs[i].root), applied |-> cs[i].applied]],
  synced  <- Len(Commits(SubSeq(file, 1, safe))),
  staged  <- applied,
  snaps   <- [s \in Snaps |-> IF snaps[s] = None THEN None ELSE MapOf(file, snaps[s].root)],
  cursors <- [c \in Cursors |-> IF cursors[c] = None THEN None
                                ELSE [min  |-> cursors[c].min, max |-> cursors[c].max,
                                      rest |-> Rest(cursors[c]), last |-> cursors[c].last]]

\* The tree implements the map bplustree.h promises: commits are atomic and add
\* versions, snapshots and cursors stand still, a crash loses whole unsynced
\* commits.  It is asked of the files that are read, the others being larger.
VersionedMapSpec ==
  /\ use.read => Abstract!Init
  /\ [][use.read => [Abstract!Next]_(Abstract!vars)]_vars
=============================================================================
