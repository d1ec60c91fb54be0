# TLA+ models of binjson-structures

binjson-structures keeps data structures in single append-only files of binjson
records, in C compiled to WebAssembly, with thin JavaScript classes over it. A
file is a sequence of commits; a commit ends with a metadata record; what
follows the last whole commit is a torn tail that the next open cuts off. All
structures share that file layer (`bjfile`), and differ in what their records
mean. This directory models the layers bottom up.

## Inventory

| part | state it keeps | operations | talks to | what is hard | what makes it correct |
|---|---|---|---|---|---|
| `bjfile.c` record file | pending buffer, committed length, running CRC and the CRC at the last commit | append, append_protected, commit, sync, discard, scan, check_tail | a host file (`bj_io`) | failed and partial writes, failed syncs, power cuts inside unsynced commits, write-back in any order | commits below the committed length verify; synced commits survive; a torn tail is cut off, never taken for corruption |
| `entrylog.c` Raft log | base, live and last committed metadata (bounds, term, vote, commit index), offset table, pending entries | create_at, open, append, sync, set_hard_state, set_commit_index, truncate_from, compact, verify | one bjfile, a second one when compacting | superseded records stay in the file, staged commit index, rollback of a failed commit, replay after a crash | one vote per term, for ever; committed entries survive; the offset table points at the right records; every file a crash leaves opens |
| `snapstore.c` + `SnapshotStore` | next generation, candidates, adopted manifest; files in a directory | open (scan, adopt, sweep), begin, createFile, commit, abort, createLogFile, logCandidates, pruneLogs | host directory, the structures' compact, the entry log | no rename and no multi-file atomicity: crash between any two file operations, failed deletions, retry of a failed commit | the adopted generation is whole and no older than the last commit; the paired log continues it |
| `bplustree.c` | root offset, next id, counts, staged applied index; open cursors | add, delete, bulk build, search, range, cursors, snapshot, open_at, rewind, compact, verify | one bjfile | copy-on-write paths, failure half way through a mutation, readers pinned at old roots, rewinds under them | sorted map semantics; balanced nodes; old roots stay readable; a failed call changes nothing |
| `rtree.c`, `geo.c` | root offset, counts | insert, remove, remove_at, search by box and by radius, nearest, cursor, clear, rewind, compact | one bjfile | quadratic splits, borrowing and merging, empty leaves, files whose nodes hold no child boxes, the antimeridian and the poles | no entry lost or doubled; every search finds what a walk over all leaves finds; boxes cover what is below |
| `textlog.c` + `TiledTextLog` | version count, last text, tile table and cache | add_version, get_version, get_diff, roll to a new tile, evict, flush, close | one bjfile per tile, `diff` | deltas that depend on earlier versions, a read that evicts while an add awaits, which tile is synced | every version reads back as it was added; a patch turns one version into another |
| `textindex.c` + `TextIndex` | three B+ trees (postings, term maps, document lengths) and a journal of two slots | add, remove, clear, query, recover, appliedIndex | three bplustrees and the journal | one operation is many commits of three files; a crash between any two | a query finds the documents there are, ranked by their statistics, after any recovery |
| `diff.c`, `keyenc.c`, `stemmer.c` | none | pure functions | | boundary cases | apply(delta(a, b), a) = b; byte order is key order |
| bridges, WASM glue, CLI tools | handle tables | adapters | | | |

Each structure assumes one thread and one caller at a time: the C code never
runs two calls at once, so interleaving arises only between *handles* (cursors
and snapshots of one tree), at the awaits of the JavaScript classes (a store
call beside the host's log, a read of a tiled log beside an add) and between the
program and the failures of its host. `PROJECT.json` lists each place where this
bites under `hazards`.

## Modules

| module | models | extends / instantiates |
|---|---|---|
| `CommitFile` | what `bjfile.h` promises: whole commits appended, a crash loses whole unsynced commits | |
| `BjFile` | `bjfile.c` over a failing host file | refines `CommitFile` |
| `Replay` | what the replay loop of `elog_open` computes, without a loop | |
| `ReplayLoop` | that loop, one record a step | checks against `Replay` |
| `RaftLog` | what `entrylog.h` promises a Raft node, with no file in sight | |
| `EntryLog` | `entrylog.c` over `CommitFile` | instantiates `CommitFile`, refines `RaftLog` |
| `EntryLogInv` | the inductive invariants of `EntryLog` | |
| `EntryLogProofs` | proofs: types, offset table, votes and recovery, committed entries and the refinement | extends `ReplayLoop` and `NatLemmas` |
| `BjFileProofs` | proofs about `BjFile`, and that it implements `CommitFile` | extends `NatLemmas` |
| `SnapshotStore` | `snapstore.c` and the `SnapshotStore` class | |
| `SnapshotStoreProofs` | proofs about it | extends `NatLemmas` |
| `NatLemmas` | the least and greatest of a set of naturals, induction and recursion up to a number, finite sums, products | `TLAPS` |
| `VersionedMap` | what `bplustree.h` promises: a sorted map with versions, snapshots and cursors | |
| `BPlusNodes` | the algorithms of `bplustree.c` on the records of a file | |
| `BPlusTree` | a tree handle: commits, readers, rewind, reset, compaction, crashes | extends `BPlusNodes`, instantiates `CommitFile`, refines `VersionedMap` |
| `BPlusTreeInv` | the inductive invariant of `BPlusTree` | |
| `BPlusEdits` | proofs about inserts, deletes and their splits and merges | extends `NatLemmas` |
| `BPlusTreeProofs` | proofs about reads, bulk load and the handle | extends `BPlusEdits` |
| `TextIndex` | `textindex.c`, its journal and the `TextIndex` class | |
| `TextIndexInv` | the inductive invariant of `TextIndex`, and what its proofs are about | |
| `TextIndexProofs` | proofs about what its operations write and what the writes make of the maps, and about its calls, failures, crashes and recovery | extends `NatLemmas` |
| `TextDelta` | the deltas, line diffs and patches of `diff.c` | |
| `TextLog` | `textlog.c`: one file of versions | extends `TextDelta` |
| `TiledTextLog` | the `TiledTextLog` class over many such files | extends `TextLog`, refines `TextHistory` |
| `TextHistory` | what a text log promises: versions that never change | |
| `TiledTextLogInv` | the inductive invariant of `TiledTextLog` | |
| `TiledTextLogProofs` | proofs about deltas and the tiled log, and its refinement | extends `NatLemmas` |
| `RTreeNodes` | the algorithms of `rtree.c` and `geo.c` on trees of boxes | |
| `RTree` | a tree handle: commits, rewind, clear, compaction, crashes, older files | extends `RTreeNodes` |
| `MCEntryLog`, `MCSnapshotStore`, `MCBPlusTree`, `MCTextIndex`, `MCTiledTextLog`, `MCRTree` | instances for TLC | |

The composition is by promise: `BjFile` is proved to implement `CommitFile`,
and `EntryLog` and `BPlusTree` are written over `CommitFile` (their crash rule
and their shape of a commit come from the instance), so neither is checked
against a file layer that is kinder than the one `BjFile` implements. The parts
above them see only commits: `TextIndex` takes a tree for the sequence of its
committed maps, `TiledTextLog` a tile for the sequence of its commits, and
`RTree` a file for its versions, and a crash leaves a prefix of these as
`CommitFile` says.

A definition named after another with an underscore (`OpenScan_CutsEarly`) is a
faulty variant: what a plausible bug in the code would be. No specification uses
one; `PROJECT.json` pairs each property with a variant that breaks it.

### BjFile and CommitFile

Bytes are grouped into records: data, trailer, metadata. A record cut by a write
or a crash is `Torn`. A CRC is the sequence of records it covers, so a collision
does not occur. `disk` is the host file as a reader sees it and `kept` the
number of records a power cut spares; `flen`, `wb`, `crc` and `crcCommitted` are
the fields of `bjfile`. A failed write leaves any part of the buffer on the disk
and stale records after it (`Remains`), a crash cuts the unsynced end anywhere;
on a host with `"reorder"` any of the unsynced records may be missing as well,
and `reordered` remembers that a crash did so: only then may a file be refused.
`MaxData` bounds the data records, so that six records can hold two commits.
`OpenScan` is the scan of the log structures, `OpenTail` the fast path of the
trees. To its structures the file is `CommitFile`'s: the records up to `Good`, the
end of the last whole commit, of what the handle stands on. A trailer is one of
the records of its batch, which the structures skip when they scan. A
protected append goes into the buffer in one step: the code may flush in the
middle of one only where `autoflush` is set, which it is for the copies a
compaction writes, and a batch cut there leaves what a failed commit leaves.

### EntryLog, RaftLog and Replay

The variables are those of `struct elog`: `m` and `cm` are the live and the last
committed `el_meta`, `ents` the offset table whose slots past `m.n` are dead,
`pend` the buffered appends, `dst` a compacted copy. The trailers, which the log
never reads, are left out. `votes` is a history variable, the votes answered
with `BJ_OK`. Failures of `encode`, `write` and `sync` are in `Faults`. A failed
sync leaves its commit in the file. The replay loop is replaced by the closed
form of `Replay`, and `ReplayLoop` checks that the two agree. The host adopts a
compacted copy before it uses the log again.

### SnapshotStore

`dir` is the directory; `stable` gives for each file the contents a power cut
may leave. `Open`, `Remove`, `Opened` are the steps of `open`, so a crash can
fall between two deletions; `Begin` to `AdoptCommitted` those of a transaction;
the rest is the log that goes with a generation. A snapshot's bytes are named by
the log index it includes. `Hosts` lists the hosts looked at, each a set of what
it may do:

| fault | meaning |
|---|---|
| `undelete` | a power cut brings a deleted file back |
| `flush` | the flush of the manifest throws; the host aborts and may retry |
| `locked` | a deletion fails; the call goes on without it |
| `kill` | the process is killed: what it wrote is still there, and still not durable |
| `trust` | the host follows `logCandidates` to an empty file, which `EntryLog.open` takes for a new log |

A file that is being written when the process is killed may have any part of its
contents (`Unfinished`). Where a manifest may stay that was never flushed
(`flush`, `kill`), what the store promises is lost in ways that the findings
show, and `CommittedSurvives` and `RecoverableUnlessKilled` name the hosts they
hold for: a retry after a commit that threw may write over the data of a
manifest that open then prefers to the committed one. Assumptions: one
transaction at a time, structures flush their copy before it is closed
(`compact` does), the host compacts the log once for each generation, the first
log is generation 0, a snapshot holds at least one structure
(`sst_manifest_encode` would also take an empty list; such a manifest, left by a
commit that threw, is a whole snapshot at the next open), and all snapshots have
one size, so the size check never helps.

### BPlusNodes, BPlusTree and VersionedMap

A file is a sequence of records (leaf, internal node, value, metadata) and a
pointer is a position in it, so copy-on-write is what it is in the code: every
operation takes a file and gives a longer one. Keys are numbers; a value in
`Large` is a record of its own and the leaf holds its position. Node ids and the
header are left out. `AddNode` and `DelNode` follow `add_node` and `del_node`:
their recursion down a tree is a recursive function of its nodes, with one
definition for what happens at a leaf and one for what a node does with the result
of its child; `Fit` is the split both share. `DeleteRoot` and `Search` give a set,
empty where the key is not found. The stack of a cursor is flattened to `ahead`,
the subtrees it has still to visit, in order; `Skipped` goes over empty leaves as
often as there are nodes ahead, which is often enough. The bulk
loader fills its levels at once, the model one level after the other: the nodes
and the tree are the same, the order of the records in the copy is not.

`root`, `size`, `applied` are the fields of `struct bpt`, `safe` the durable
length, `packed` a history variable: a bulk load may leave sparse nodes on its
right spine, so `Filled` is asked only of trees without one. `NoReader` is what
`bplustree.h` asks of the host before it cuts or replaces the file. `use` says
what a file is used for: seven keys that only the handle reads, three keys with
readers, or two with readers and a log applied. `Forget` is not the program's:
it drops the records of earlier commits, so that a long sequence of calls fits a
short file.

A mutation that fails is no step (it restores the handle and discards its
records), and `Reset` is one step although the code truncates before it writes.

### TextIndex

`tree` holds the committed maps of the three trees, `slot` the two slots of the
journal, each with a transaction number and the three lengths recorded. An
operation is computed as the list of its writes in the code's order (`Writes`),
and `Step` issues them one by one: a put, a delete, a reset of a tree, the
record of the journal. Postings are kept as the code keeps them, header and
blocks of `BlockDocs` documents, with the one blob of a term that old files hold
beside them, and so is the stored corpus length. `Open` is `tix_recover`: the
newest record that all trees are long enough for, the trees cut to it, or
refused when no record fits.

The host applies a replicated log: it stages the index of an operation in all
three trees and, after a restart, goes on with `appliedIndex() + 1`. `log' \in`
in `Open` lets it also be a host without such a log, which forgets what was not
applied. It closes an index whose call failed.

Two limits. A journal write that completed is durable, although the code flushes
the journal only at close. And where an operation is cut short with no record to
go back to (none written yet, or one whose lengths a tree no longer has) nothing
is claimed until a `clear` repairs the index: `exposed` marks it, and
`tix_empty` shows what happens in the first of these cases.

### TextDelta, TextLog, TiledTextLog and TextHistory

A text is a sequence of symbols with `NL` among them, and there are no carriage
returns. `CreateDelta` finds matches as `diff_create_delta` does, through a
table that keeps the last gram of each slot, `EditScript` the Myers walk,
`CreatePatch` and `ApplyPatch` make and read hunks, with their context and the
mark of a missing last newline. `GetDiff` prints the hunks with their numbers as
they are, where `CreatePatch` adjusts the line of an empty side, so its output
applies only where neither side is empty. `TextLog` has no variables: it takes
the commits of a file and the handle (metadata and remembered text) and gives
what a call makes of them, older files with patch entries included. The hash of
a version is its text.

`TiledTextLog` cuts the asynchronous methods at their awaits. `writer` and
`reader` hold where an add and a read stand; `lru` and `logs` are the cache,
whose eviction flushes and closes a tile under whoever awaits; `Crash` cuts
every file to any length it has not synced, and may leave a part of a first
commit. Such a file is `torn`: opening it throws, for ever (`OpenThrows`), although
`textlog.h:12-13` says that a torn end is cut off; so it does where a first commit
cannot be written. `TextHistory` is the promise:
numbers only grow, no text is replaced, and what was flushed or closed stays.

### RTreeNodes and RTree

Nodes are values: a record is never changed once written, so the node a pointer
leads to is the subtree itself. Splits, borrowing and merging are those of the
code, in its order and with its ties, and so are the null box of an empty leaf
(which reads as a box at 0, 0), and nodes of older files, which hold no boxes of
their children. Places are whole degrees. Cosine is a table by five degrees, in
thousandths, and all places of an instance are multiples of them; distances are
compared by their haversines, which order the same, and `Rounding` allows for
the table. A cursor is walked at once, since later appends never change what it
reads. `use` says what a file is used for: a large tree, every order of a few
entries, or the commits of a small tree.

## Runs

| run | bounds | shows |
|---|---|---|
| `bjfile` | 1 payload, 6 records, 2 of them data; all faults | what a handle stands on verifies; every open ends on a commit and refuses only reordered files; synced commits are never lost; `BjFile` implements `CommitFile` |
| `log_faults` | fresh and based logs, 1 value, indexes to 2; replay over every file of up to 4 entries | offset table, reopening, `elog_verify` and committed entries, under every fault; the replay loop computes its closed form |
| `log_votes` | 2 nodes (symmetric), 2 terms, 1 index | one vote a term; `EntryLog` implements `RaftLog` |
| `log_failedsync` | with sync failures | memory is not what a reopen reads |
| `snap` | 2 roles (symmetric), 2 generations, 1 log entry; hosts with one of `undelete`, `flush`, `locked`, `kill` | adoption, durability and fresh generation numbers where no commit throws and nothing is killed, log recovery where nothing is killed |
| `snap_retry`, `snap_emptylog` | 2 log entries; `flush`, `trust` | what breaks under them |
| `bpt` | order 3; 7 keys that only the handle reads, 3 keys with values outside the leaves or 2 with an applied index to 1, with a snapshot and a cursor; 2 commits in the file | nodes are in shape, search and range agree with a walk, applied indexes ascend; `BPlusTree` implements `VersionedMap` |
| `tix_journal` | 2 documents, 2 terms, blocks of 1 document, 3 operations; new and old files; failed writes and power cuts | the index is the one of its log, queries find what there is, refusal only after loss; the log is applied in the end |
| `tix_empty` | 1 operation, no other faults than a crash | an operation on an empty journal is not rolled back |
| `tiles` | 2 texts, 4 versions, tiles of 2, 3 or 4 commits and at most 3 of them, 2 open tiles, 1 delta a snapshot; older files of up to 3 versions, 11 texts in all | every version reads back, beside an add too; a read keeps its tile but for an add; tiles in order; the diffs of any two texts apply and are shortest; `TiledTextLog` implements `TextHistory` |
| `rtree` | 3 entries a node; 8 entries in one order, 5 in any order and with older files, 2 with two commits, 5 around the poles | trees verify, no entry is lost, searches by box agree with a walk; by radius at the equator and around the poles, the antimeridian included; nearest on the equator |

The bounds. Six records in a file hold two commits, or one, the stale remains of
a failed one and another over them. Log files hold a header, two commits with
their entries and a superseded one; two indexes are enough for a truncation to
be followed by a re-append in a dead slot. Two generations are enough for a
predecessor, a successor and a retry; a mix of two snapshots needs two files. At
order 3 seven keys reach a tree three levels high, so that internal nodes split,
merge and redistribute, and a root collapses; every smaller tree is on the way
there. Three keys make a leaf split while a cursor stands on it. With blocks of
one document a second document starts a second block, so that a document added
again is in two; three operations are enough for both slots of the journal to be
written and one of them to be used again. A tile of two commits holds its header
and one version, of three a snapshot and a delta, and one of four goes on to a
second snapshot before it rolls: with tiles of two, three versions need three
tiles, so that with two open a read of the oldest evicts the one between, and a
read and a rolling add evict each other's. `MaxTiles` keeps larger ones as
short. Eight entries make an R-tree of three levels with internal splits, and
the places lie on both sides of the antimeridian; a search from 80 degrees north
or south reaches over its pole to entries on the other side.

`bjfile`, `tix_journal`, `tix_empty` and `tiles` turn the deadlock check off: a
refused file stops the first three, as no call opens it, and the bounds on
operations stop the last three. All other
runs check for deadlock.

Fairness is stated where something waits for something. `LogApplied` of
`TextIndex` says that a host which resumes after `appliedIndex()` gets its log
into the index, though an operation that changes nothing commits nothing and
leaves no mark of its index. It assumes that a call once begun goes on issuing
its writes (they are one synchronous C call, so `WF` is what the machine gives)
and that the host replays the operations of its log that are not applied; not
that anybody calls for anything new, closes, or opens. The property is claimed
of runs that stay open in the end, since crashes and failures may go on for
ever. In the other parts an operation is a call that returns and nothing in the
code waits.

### Findings

The runs that expect a violation state what a comment or a test says and show
the code doing otherwise: a commit whose sync fails stays in the log file
(`log_failedsync`); a snapshot commit that is aborted and retried can leave a
mix (`snap_retry`); an empty log file opens as a fresh log (`snap_emptylog`);
the first operation on an index with an empty journal is not rolled back
(`tix_empty`). `PROJECT.json` quotes the lines.

Met while modelling, listed under `hazards` and not claimed by a run:

* Snapshot store: a momentary read failure at open deletes the only snapshot. Open
  does not flush the manifest it adopts: after a process killed between its write
  and its flush it sweeps the committed snapshot before it, and a power cut then
  leaves none (`MCSnapshotStore` with `Hosts = {{"kill"}}` violates
  `CommittedKept`). The same with a commit that threw and whose data could not be
  deleted cuts the log at a snapshot that is lost (`Hosts = {{"flush", "locked"}}`
  violates `Recoverable`), although the class comment says that no failed deletion
  can lose the adopted snapshot.
* B+ tree: the failure paths of `bpt_reset` and of a cursor's opening.
* Text index: after a recovery to the older record the next transaction
  overwrites the record in use.
* Tiled log: `flush` does not sync a tile that was just rolled away from; two
  overlapping adds may roll on one base; a tile whose creation was cut short can never be opened again, and no version be added. With `maxOpenTiles` 1 every
  read outside the active tile throws, as `_evict` closes the tile just opened
  (`MaxOpenTiles = 1` violates `ReadsGetTheirTile`).
* R-tree: away from the equator `rtree_nearest` is not nearest first, because
  the lower bound of a box clamps the latitude, and the box of a radius search is
  too narrow between the equator and the poles, so that `RadiusFinds` and
  `NearestAscends` are stated where the arithmetic is right. `rtree_create` takes
  two entries a node, where a merge can split by a box that was never set; the
  model starts at three. `rtree_remove_at` with a place that is not the entry's
  may still remove it when the boxes overlap, where `rtree.h:130` says that it
  finds nothing.

## Proofs

Proved for all values of the constants, that is for every number of nodes,
terms, values, keys, structures, generations, records, versions, texts, open tiles
and documents, every block size and order of a tree, and every choice of faults.
TLC first checked each inductive invariant on an instance.

### The Raft log

| theorem | states | by |
|---|---|---|
| `TableInvariant` | `TableInv` | induction |
| `TypeCorrect` | `TypeOK` | `TableInv` |
| `VotesSafe` | `VotesKept` | induction with `TableInv` |
| `FileDisciplined` | `FileDiscipline`, that the log uses its file as `CommitFile` allows; only proved, in no run | `TableInv`, action by action |
| `RecoveryInvariant` | `RecoveryInv` | induction with `TableInv` |
| `AlwaysReopenable`, `AlwaysVerifies` | `Reopenable`, `Verifies` | `RecoveryInv` |
| `LoopCorrect` | `LoopComputesTable` | `TypeOK`; induction over the records replayed |
| `CommittedSafe` | `CommittedNeverLost` | the inductive `FloorInv`, with both |
| `ImplementsRaftLog` | `RaftLogSpec` | step simulation under all three |

`TableInv`. The offset table alone is not inductive: to show that a replay
rebuilds it, one must know that every record of index *i* comes after records of
all indexes between the base and *i* (`WellFormed`), in the file, in every prefix
a crash leaves and in the compacted copy; and that the slots a rollback returns
to point into the file alone. `ReplayFindsSlots` derives from it that the last
record of each index is a function of the file.

`RecoveryInv`. `Reopenable` says that a replay of the file meets no gap, reaches
the last index of the metadata and finds its last term. The first depends on all
records, superseded ones too; the others on the newest record of an index being
the one the table points at (`Current`), also past the last live slot, where a
truncation left newer records than the table knows. So the invariant is about
three things at once: every crash point of the file, the compacted copy, and the
file with the buffer of an open handle, which is the next commit.

`LoopCorrect`. All of this speaks of the closed form of `Replay`. That the loop of
the code computes it is proved for every sequence of records and every base
(`LoopBuilds`): after the records *h* the loop has failed exactly if *h* does not
replay, and otherwise has one slot for each index up to the last (`Built`, and
`Filled`, that every slot has a record). A record either appends a slot or
supersedes all slots from its own (`TableTakes`). The loop is a recursive function,
which exists by `Recursion` of `NatLemmas`.

`FloorInv`. What keeps a committed entry is that nothing after the durable commit
writes at or below its commit index, in the file or in the buffer, and that the
live and the rolled back commit index stay at or above it.

The refinement. The abstract log has a live, a saved and a stable state; they are
what a handle shows of its live table, of its committed one, and what a replay
gives at each crash point. An append, a truncation or a vote is one step; a
commit, a rollback and a crash move one of the three to another, which is where
`Current` is needed: what the replay rebuilds is what the handle showed.
`MarkersAssumption` says that the two markers of `RaftLog` are no states of a log.

### The record file

`FileInvariant` states `FileInv`, from which `FileTyped` (`TypeOK`),
`HandlesVerify` (`HandleVerifies`), `OpenComesToCommit` (`OpensAtCommit`) and
`DurableSafe` (`DurableNeverLost`) follow. That commits below the committed
length verify is not inductive: the next commit is as good as the running CRC,
so the CRCs must be those of the records since the last commit, with the buffer
and without it. And that open comes to a whole commit is a fact about what lies
past the committed length: failed writes leave stale records there, but never a
metadata record, since a commit is the last thing in a buffer and a write is
retried at the same place. A crash that reorders writes breaks that, and from
then on nothing is claimed of what open finds, only that synced commits stay.

`ImplementsCommitFile` (`CommitFileSpec`) closes the composition: the crash rule
and the shape of a commit that the proofs about the log take from `CommitFile` are
what `bjfile.c` gives, as long as no crash breaks the order of writes. The end of
the last whole commit is the last metadata record of the file, on the disk and
below the committed length alike (`GoodAt`, `FileIs`), so opening, buffering and a
failed write change nothing a structure sees. A flush that ends with metadata adds
exactly one batch: data records, the trailer whose CRC is theirs, the metadata
(`LastBatch`). This needs one more invariant, `CommitInv`, that a metadata record
always follows its trailer: without it a record that verifies only because nothing
protects it would pass for a commit.

### The snapshot store

| theorem | states | for hosts |
|---|---|---|
| `SnapshotTyped` | `TypeOK` | all |
| `StoreInvariant` | `StoreInv` | all; its core where nothing is killed and, where a flush may throw, deletions work and last (`Ordinary`) |
| `SnapshotVerifies`, `SnapshotFresh` | `VerifiesUnlessThrown`, `FreshGeneration` | none is killed (`Unkilled`); both exclude `flush` |
| `RecordInvariant` | `RecordInv` | all; its part on indexes also without `trust` (`Sound`) |
| `SnapshotSurvives` | `CommittedSurvives` | none trusts an empty log (`Untrusting`); it excludes `flush` and `kill` |
| `SnapshotRecoverable` | `RecoverableUnlessKilled` | `SoundHosts`: `Untrusting`, and none has `flush` with `undelete` or `locked`; it excludes `kill` |

The argument is about what a power cut may leave (`stable`). Call a generation
committing when its manifest may be left whole with its files. Then there is the
generation in force, whose files are settled, and above it at most one
committing generation (`Commits`); what else is in the directory is about to be
swept, of the transaction, or the manifest of a commit that threw (`Tidy`, which
claims nothing where a deletion may fail). Where deletions last, an absent file
stays absent (`NoUndelete`); where no flush throws, the committing generation is
the transaction's own (`NoThrow`). On top of that no manifest that may come back
is older than the last commit (`Indices`), and one log file is settled, no newer
than the generation in force, and all readable ones above it hold every
acknowledged entry (`Logs`). `TypeInv` has the one fact the types need, that a
transaction's data is settled before its manifest is written.

The hypotheses on hosts are needed. TLC finds `CommittedKept` violated for a host
that is killed, and `Recoverable` for one whose deletions fail after its flush did
and for one that trusts empty logs (`snap_emptylog`);
`AdoptedVerifies` falls with a retry (`snap_retry`). The hosts of the run `snap`
satisfy `SoundHosts`.

### The tiled text log

| theorem | states | by |
|---|---|---|
| `DeltaCorrect` | a delta turns the first text into the second | induction over the rounds of `diff_create_delta` |
| `InvAlways` | `Inv` | induction, action by action |
| `TypesAlways`, `LogsAlwaysAgree`, `AlwaysInOrder` | `TypeOK`, `LogsAgree`, `TilesInOrder` | `Inv`; the first also `TornAlways`, that a torn file holds no version |
| `VersionsAlwaysReadBack` | `VersionsReadBack` | `Inv` and `ChainReads` |
| `ImplementsHistory` | `HistorySpec` | step simulation under `Inv` |

`DeltaCorrect`. At every round the operations put out so far give the target up to
`ins`, and those never copy past the end of the source; what is inserted is the
target's own, and what is copied agrees with it forwards (`RunAgrees`) and
backwards no further than what is pending (`BeforeAgrees`). It holds for every
`DeltaK` and every `Slot`, so neither the hash nor the table's replacement of
colliding grams is needed for correctness, only the comparison after the lookup.

`Inv`. That every version reads back is not inductive: a record of a delta says
nothing without the one before it. So the invariant is about the whole file. It is
a `Chain`: each commit makes its text from the one before, and no further back than
the differences its metadata counts is a record that is no delta. A
chain reads every version in it (`ChainReads`), a prefix of a chain is one
(`ChainPrefix`, what a crash leaves), and `textlog_add_version` extends one
(`CommitFollows`) provided that the text the handle remembers is the newest, which
is where `LogsAgree` comes in. Of the files the invariant says that none starts
below the newest version of one before it, so that the tile `_tileFor` finds is
the only one that can hold a version (`OwnerHolds`); of an open log, that all its
files are known but one just rolled, still empty and based at the version reported.
A version is on storage a step before it is reported, so a read can ask for one
only after its file is known; a roll does not move the owner of such a version,
and this is what keeps the read under way valid beside an add. The add relies on
`_evict` sparing the active tile alone.

The refinement. The abstract texts are the versions in the files, the safe ones
those in the synced prefixes. Opening, flushing, closing and evicting only grow
the prefixes, a crash leaves at least these, and a write adds one version above
all others.

Assumed: `OlderAssumption`, that an older file is one whose patches apply. What
this log writes itself is snapshots and deltas, for which nothing is assumed. TLC
evaluates the assumption for the older files of `tiles`, and `DiffsExact` checks
`diff.c` for it on each pair of the texts.

### The text index

| theorem | states | by |
|---|---|---|
| `Invariant` | `FullInv` | induction, action by action |
| `TypeCorrect`, `OnlyLossRefused` | `TypeOK`, `RefusesOnlyLoss` | `FullInv` |
| `OperationsAtomic` | `DocumentsMatchLog` | `FullInv` |
| `QueriesRight` | `QueriesMatchDocuments` | `FullInv`, and a bijection of terms and keys |

All safety properties of `tix_journal` are proved, in two halves.

What an operation writes. A term has a chain of blocks without a
gap, or a blob, or nothing (`LaidOut`), and no dict names a document twice; a
document may still be in two blocks, and the later one counts (`Says`). Over that,
`post_add` changes the postings of its term by exactly one document, wherever it
finds it: in the last block, which may be full, in an earlier one, in a blob that
it has to cut into blocks of `BlockDocs` (`PostAddSays`); `post_remove` takes the
document out of every block and the whole chain away when nothing is left
(`PostRemoveSays`). No other term changes, so an add or a remove of a text, which
does this for one term after the other, leaves the postings of the documents it
should (`DropsSay`, `PostsSay`, `AddServes`, `RemoveServes`), and the sum that is
stored or counted is that of their lengths (`SumMoves`), in whatever order a sum is
taken. The loops of the code are recursive functions over the terms; they exist by
`Recursion` of `NatLemmas`. An index an older version wrote has its documents'
postings as well (`OlderServes`).

What a crash leaves of it. Half way through a call the maps
are those of no operation, so `HalfDone` speaks of the maps that the rest of the
call will make of them, which no write changes (`HalfStep`). A record of the
journal is `Good` when the three versions it names are of one operation and show
its documents, and no version before them is of a later operation: the newest
record stays good until the next one is written, whatever a crash takes, as long as
the trees are long enough for it (`RecordsInv`). After a crash that took commits
this is claimed only of the newest record and of the newest usable one. An
operation that changes nothing leaves no trace in the trees, so a recovered index
may report less than what returned; `FinishedInv` says that from the operation it
reports to the last that returned nothing changed (`Settled`), for which the
clears need an argument of their own: they empty the journal before the trees, so
no tree that is left may be of an operation before one (`Over`). `HostInv`, that an
index never reports operations that its log does not have, is what makes the next
call well defined.

Assumed: `TextsAssumption`, that a text is a bag of finitely many stems and an old
index holds finitely many of them.

### The B+ tree

| theorem | states | by |
|---|---|---|
| `Invariant` | `Inv` | induction, action by action |
| `TypeCorrect`, `IndexNeverFallsBack` | `TypeOK`, `AppliedAscends` | `Inv` |
| `ShapeKept` | `InShape` | `Inv`; what `bpt_verify` computes from a summary |
| `ReadsRight` | `ReadsAgree` | `Inv`; what reads compute from a summary |

All invariants of `bpt` are proved, for trees of every order, any number of keys,
commits and readers. `Inv` says nothing of a tree as a whole. It gives each node
of the file, not only those of live trees, a summary: its height, its entries, its
keys with the separators below it, and whether it and the last node of each level
under it hold `MinKeys` keys. A node fits when its summary is what its record makes
of its children's, the children have one height, and the separators lie between
their keys (`NodeOK`). This is a property of one record and of records before it,
so appending a record that fits keeps it of all (`SaveAll`), and cutting the file
does as well (`CutTrees`); that is what copying on write is for. `Sound` asks for
some summaries that fit, and that each commit names a node with as many entries as
it says. Then:

* An insert below a node gives `Halves`: one or two nodes that fit, together with
  the old entries and the new one, and the key between them. `FitIs` is the split of
  leaf and internal node, `ReplaceIs` that a node stays in order when some of its
  children give way to others that hold keys from the same span.
* A delete gives one node that may be short of keys (`Deleted`). Two neighbours and
  the separator between them, joined, fit one node or can be split into two that
  hold `MinKeys` keys (`PairJoins`, `ChildTakes`), and a root that has run out of
  keys gives way to its child.
* A bulk load writes level over level. Rows of a level are full but for the last
  (`ChunksAre`), so only the last child of a node can be short of keys; this is why
  a summary has `solid`, and why `Filled` may be asked where nothing was loaded.
* A walk over the leaves gives the entries of a summary by ascending keys, and
  there is only one such sequence (`ListsUnique`), so search, range scan and
  `bpt_verify` are compared with the summary and not with one another.
* A recursion of the code is a recursive function, which exists because a node's
  children come before it in the file (`Before`), by induction (`UpTo`) over the
  length of the file; the loops of a bulk load and of a cursor exist by `Recursion`.

Assumed: `OrderAssumption`, that an order is at least three as `bpt_open` demands,
`MapAssumption` and `UsesAssumption`, that keys and applied indices are bounded by
numbers.

### Left to TLC

* `LogApplied`, a liveness property.
* `VersionedMapSpec`, that the tree implements the versioned map: the invariants it
  would rest on are proved, the steps of cursors over the abstract map are not.
* The R-tree: its algorithms are recursive operators, as they are recursive
  functions in C, and those are outside what the proof system handles. Those of the
  B+ tree were turned into recursive functions for its proofs.
* `ReadsGetTheirTile`, that only an add closes the tile of a read: it holds for two
  open tiles or more, and is false for one.
* `DiffsExact`: the line diff and the unified patches of `TextDelta` for every
  input. The walk over diagonals is a fold over a table, and that its script is the
  shortest is a fact about all scripts.

## Plan

1. Done: the file layer, the Raft log and its proofs, the snapshot store, the
   B+ tree, the text index, diffs and the tiled text log, the R-tree.
2. Left to model: mutations, resets and truncates of the B+ tree that fail half
   way, and the count of its open cursors; overlapping adds of a tiled log and
   overlapping snapshot transactions; `keyenc.c`, the order of encoded keys
   against the order of keys; `bjio_posix.c`.
3. Left to prove: that the B+ tree implements `VersionedMap`; the invariants of the
   R-tree, after the same change of its recursions; that applying a patch which
   `CreatePatch` made gives its second text, which would discharge
   `OlderAssumption`.

## Not modelled

Byte encodings, sizes and limits of the record format (a commit above 8 MB is
adopted without its CRC, above 4 GB it has no trailer), CRC and hash collisions,
memory exhaustion other than a failed encode, more than one store or log handle
over one file, tokenizing, stemming and the scores of a query (the sets and the
statistics they are computed from are modelled), the compaction of a text index,
carriage returns in diffs, the key encoding, the host adapters, the WASM glue,
the command-line tools and demo pages.
