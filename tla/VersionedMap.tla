------------------------------ MODULE VersionedMap ------------------------------
(***************************************************************************)
(* What bplustree.h promises: a sorted map whose every commit is a version *)
(* that can be read, snapshotted and rewound to for as long as the file is *)
(* only appended to.  A cursor walks the version it was opened on,         *)
(* whatever is committed after.  No node, pointer or file in sight.        *)
(***************************************************************************)
EXTENDS Naturals, Sequences, FiniteSets, TLC

CONSTANTS MaxKey, Value,         \* keys are the numbers 1..MaxKey
          MaxApplied,            \* the last index of the log applied to the map
          Snaps, Cursors,        \* names for snapshots and cursors
          None

VARIABLES
  hist,        \* the versions in the file
  synced,      \* how many of them a power cut cannot take
  up,          \* whether the tree is open
  staged,      \* the applied index the next commit carries
  snaps,       \* the open snapshots
  cursors      \* the open cursors: their bounds, the entries to come and the
               \* last one given

vars == <<hist, synced, up, staged, snaps, cursors>>

Version(m, a) == [map |-> m, applied |-> a]
Now == hist[Len(hist)]

\* The entries of a map in key order.
EntriesFrom(m, lo, hi) ==
  LET ks     == DOMAIN m \cap (lo..hi)
      nth(i) == CHOOSE k \in ks : Cardinality({j \in ks : j <= k}) = i
  IN  [i \in 1..Cardinality(ks) |-> <<nth(i), m[nth(i)]>>]

NoReader == (\A s \in Snaps : snaps[s] = None) /\ (\A c \in Cursors : cursors[c] = None)

-----------------------------------------------------------------------------
Init ==
  /\ hist = <<>> /\ synced = 0
  /\ up = FALSE /\ staged = 0
  /\ snaps = [s \in Snaps |-> None] /\ cursors = [c \in Cursors |-> None]

Create ==
  /\ ~up /\ up' = TRUE
  /\ hist = <<>> /\ hist' = <<Version(<<>>, 0)>>
  /\ staged' = 0
  /\ UNCHANGED <<synced, snaps, cursors>>

\* Opens the last version.
Open ==
  /\ ~up /\ up' = TRUE
  /\ hist # <<>> /\ staged' = Now.applied
  /\ UNCHANGED <<hist, synced, snaps, cursors>>

\* The maps one call of bpt_add or bpt_delete makes of a map.  Deleting what is not
\* there commits nothing.
Edited(m) ==
  {(k :> v) @@ m : k \in 1..MaxKey, v \in Value}
    \cup {[j \in DOMAIN m \ {k} |-> m[j]] : k \in DOMAIN m}

Edit ==
  /\ up
  /\ UNCHANGED <<up, staged, synced, snaps, cursors>>
  /\ LET h == hist IN
     hist' \in {Append(h, Version(m, staged)) : m \in Edited(h[Len(h)].map)}

SetAppliedIndex ==
  /\ up /\ staged' \in (staged + 1)..MaxApplied
  /\ UNCHANGED <<up, synced, snaps, cursors, hist>>

Sync ==
  /\ up
  /\ UNCHANGED <<up, staged, snaps, cursors, hist>>
  /\ synced' = Len(hist)

\* Back to an earlier version; every later one is gone.
Rewind ==
  /\ up
  /\ UNCHANGED <<up, snaps, cursors>>
  /\ NoReader
  /\ \E n \in 1..(Len(hist) - 1) :
       /\ synced' = IF synced > n THEN n ELSE synced
       /\ staged' = hist[n].applied
       /\ hist' = SubSeq(hist, 1, n)

Reset ==
  /\ up
  /\ UNCHANGED <<up, staged, snaps, cursors>>
  /\ NoReader
  /\ synced' = 0
  /\ hist' = <<Version(<<>>, staged)>>

\* A synced copy of the last version alone replaces the file.
Compact ==
  /\ up
  /\ UNCHANGED <<up, staged, snaps, cursors>>
  /\ NoReader
  /\ synced' = 1
  /\ hist' = <<Version(Now.map, staged)>>

\* A power cut, or the end of the process: a suffix of the unsynced versions goes.
Crash ==
  /\ up' = FALSE /\ staged' = 0
  /\ snaps' = [s \in Snaps |-> None] /\ cursors' = [c \in Cursors |-> None]
  /\ UNCHANGED synced
  /\ hist' \in {SubSeq(hist, 1, n) : n \in synced..Len(hist)}

\* A bound for TLC: nobody goes back to the versions before the last one.
Forget ==
  /\ up
  /\ UNCHANGED <<up, staged, snaps, cursors>>
  /\ NoReader /\ synced = Len(hist)
  /\ synced' = 1
  /\ hist' = <<Now>>

-----------------------------------------------------------------------------
(* Readers.                                                                *)

\* Of any version in the file.
TakeSnapshot(s) ==
  /\ up /\ snaps[s] = None /\ snaps'[s] # None
  /\ UNCHANGED <<up, staged, synced, cursors, hist>>
  /\ snaps' \in {[snaps EXCEPT ![s] = hist[n].map] : n \in 1..Len(hist)}

FreeSnapshot(s) ==
  /\ snaps[s] # None
  /\ snaps' = [snaps EXCEPT ![s] = None]
  /\ UNCHANGED <<up, staged, synced, cursors, hist>>

\* On the last version or a snapshot; an open end is a bound at the end of the keys.
OpenCursor(c) ==
  /\ up /\ cursors[c] = None /\ cursors'[c] # None
  /\ UNCHANGED <<up, staged, synced, snaps, hist>>
  /\ LET min == cursors'[c].min  max == cursors'[c].max IN
     /\ {min, max} \subseteq 1..MaxKey
     /\ \E m \in {Now.map} \cup {snaps[s] : s \in {t \in Snaps : snaps[t] # None}} :
          cursors' = [cursors EXCEPT ![c] = [min  |-> min, max |-> max, last |-> None,
                                             rest |-> EntriesFrom(m, min, max)]]

CursorNext(c) ==
  /\ cursors[c] # None /\ cursors'[c] # None
  /\ cursors' = [cursors EXCEPT ![c] =
       IF @.rest = <<>> THEN [@ EXCEPT !.last = None]
       ELSE [@ EXCEPT !.rest = Tail(@), !.last = Head(cursors[c].rest)]]
  /\ UNCHANGED <<up, staged, synced, snaps, hist>>

CloseCursor(c) ==
  /\ cursors[c] # None
  /\ cursors' = [cursors EXCEPT ![c] = None]
  /\ UNCHANGED <<up, staged, synced, snaps, hist>>

Next ==
  \/ Create \/ Open \/ Crash
  \/ \E c \in Cursors : OpenCursor(c) \/ CursorNext(c) \/ CloseCursor(c)
  \/ \E s \in Snaps : TakeSnapshot(s) \/ FreeSnapshot(s)
  \/ Edit \/ SetAppliedIndex \/ Sync
  \/ Rewind \/ Reset \/ Compact \/ Forget

Spec == Init /\ [][Next]_vars
=============================================================================
