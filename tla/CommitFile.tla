------------------------------- MODULE CommitFile -------------------------------
(***************************************************************************)
(* What bjfile.h promises the structures that sit on it: an append-only    *)
(* file made of commits.  A commit is a batch of records whose last one is *)
(* a metadata record.  Handing a commit to the host does not make it       *)
(* survive a power cut; a sync does.  A crash loses a suffix of whole      *)
(* commits, none of them synced, and never half of one.                    *)
(*                                                                         *)
(* BjFile shows that the record file with its CRC trailers and its         *)
(* recovery scan keeps this promise; EntryLog is built on it.              *)
(***************************************************************************)
EXTENDS Naturals, Sequences

CONSTANT Batches      \* the commits a structure may hand over (a bound for TLC)

VARIABLES
  file,               \* the records of every commit the file holds, in order
  safe                \* how many leading records a power cut cannot take

IsMeta(r) == r.kind = "meta"

\* A batch ends with its only metadata record.
IsCommit(b) ==
  /\ b # <<>>
  /\ \A i \in 1..Len(b) : IsMeta(b[i]) <=> i = Len(b)

\* The lengths at which `f` ends with a whole commit: nothing, or a metadata
\* record.
CommitEnds(f) == {0} \cup {k \in 1..Len(f) : IsMeta(f[k])}

\* The lengths a crash may leave when the first `s` records are synced.
CrashPoints(f, s) == {k \in CommitEnds(f) : k >= s}

-----------------------------------------------------------------------------
Init == file = <<>> /\ safe = 0

\* bjfile_commit: the batch reaches the host.
Commit(b) ==
  /\ IsCommit(b)
  /\ file' = file \o b
  /\ UNCHANGED safe

\* bjfile_sync: the batch reaches the host and everything becomes durable.
CommitDurably(b) ==
  /\ IsCommit(b)
  /\ file' = file \o b
  /\ safe' = Len(file')

\* bjfile_sync with nothing pending.
Flush == safe' = Len(file) /\ UNCHANGED file

\* A crash keeps everything synced and any number of later whole commits.
Crash ==
  /\ \E k \in CrashPoints(file, safe) : file' = SubSeq(file, 1, k)
  /\ UNCHANGED safe

Next ==
  \/ \E b \in Batches : Commit(b) \/ CommitDurably(b)
  \/ Flush
  \/ Crash

vars == <<file, safe>>
Spec == Init /\ [][Next]_vars
=============================================================================
