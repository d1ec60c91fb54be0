-------------------------------- MODULE TextLog --------------------------------
(***************************************************************************)
(* src/textlog.c: one file of versions of a text, as the operations on its   *)
(* commits and on the handle that has it open.  A commit is the record of a  *)
(* version and the metadata after it (BjFile finds the last whole one); the  *)
(* hash of a text stands for the text, as collisions do not happen.          *)
(***************************************************************************)
EXTENDS TextDelta

CONSTANTS
  DiffsPerSnapshot,
  NoText             \* no text is cached

ASSUME SnapshotAssumption == DiffsPerSnapshot \in Nat

Metadata(version, base, diffs, latest) ==
  [version |-> version, base |-> base, diffs |-> diffs, latest |-> latest]

\* textlog_create_at: the header and the first metadata.
CreateAt(base) == <<[type |-> "header", md |-> Metadata(base, base, 0, FALSE)]>>

\* The version is taken to be the base.
Adopt_FromBase(commits) ==
  [md |-> [Last(commits).md EXCEPT !.version = Last(commits).md.base], text |-> NoText]

\* The handle textlog_open builds from the last commit.
Adopt(commits) == [md |-> Last(commits).md, text |-> NoText]

\* The header is the first of them.
Entries(commits) == SubSeq(commits, 2, Len(commits))

\* One record of the chain.
ApplyEntry(acc, e) ==
  CASE ~acc.ok             -> acc
    [] e.type = "snapshot" -> Done(e.data)
    [] e.type = "delta"    -> ApplyDelta(acc.text, e.data)
    [] e.type = "patch"    -> ApplyPatch(acc.text, e.data)

\* The entries from start to hi, one after the other.
Applied(es, start, hi) ==
  LET after[n \in 0..(hi - start + 1)] ==
        IF n = 0 THEN Done(<<>>) ELSE ApplyEntry(after[n - 1], es[start + n - 1])
  IN  after[hi - start + 1]

Checked(result, hash) == IF result.ok /\ result.text = hash THEN result ELSE Failed

\* reconstruct_version: from the last snapshot up to the version, the result checked
\* against the hash.
Reconstruct(commits, v) ==
  LET es    == Entries(commits)
      upTo  == {i \in DOMAIN es : es[i].version <= v}
      hi    == Max(upTo)
      snaps == {i \in 1..hi : es[i].type = "snapshot"}
  IN  IF upTo = {} THEN Done(<<>>)
      ELSE IF snaps = {} THEN Failed
      ELSE Checked(Applied(es, Max(snaps), hi), es[hi].hash)

SnapshotDue(md) == md.diffs >= DiffsPerSnapshot \/ ~md.latest

\* The text the next delta is made against.
Previous(commits, log) ==
  IF log.text # NoText THEN Done(log.text) ELSE Reconstruct(commits, log.md.version)

\* textlog_add_version: the commit of a version.
VersionCommit(commits, log, text) ==
  LET v   == log.md.version + 1
      due == SnapshotDue(log.md)
  IN  [type |-> IF due THEN "snapshot" ELSE "delta", version |-> v, hash |-> text,
       data |-> IF due THEN text ELSE CreateDelta(Previous(commits, log).text, text),
       md   |-> Metadata(v, log.md.base, IF due THEN 0 ELSE log.md.diffs + 1, TRUE)]

CanAdd(commits, log) == SnapshotDue(log.md) \/ Previous(commits, log).ok

InRange(md, v) == md.base < v /\ v <= md.version

\* textlog_get_version, whose result may come from the cache.
GetVersion(commits, log, v) ==
  IF ~InRange(log.md, v) THEN Failed
  ELSE IF log.text # NoText /\ v = log.md.version THEN Done(log.text)
  ELSE Reconstruct(commits, v)

\* ... and, for the latest version goes into it.
Remember(log, v, result) ==
  IF result.ok /\ v = log.md.version THEN [log EXCEPT !.text = result.text] ELSE log

\* A file of the older format: the first version in full, then patches.
OlderFile(texts) ==
  CreateAt(0) \o [v \in DOMAIN texts |->
    [type |-> IF v = 1 THEN "snapshot" ELSE "patch", version |-> v, hash |-> texts[v],
     data |-> IF v = 1 THEN texts[v] ELSE CreatePatch(texts[v - 1], texts[v]),
     md   |-> Metadata(v, 0, v - 1, TRUE)]]
=============================================================================
