----------------------------- MODULE SnapshotStore -----------------------------
(***************************************************************************)
(* src/snapstore.c and the SnapshotStore class of structures-core.js: the  *)
(* generations of a snapshot, the manifest that commits one, what open     *)
(* adopts and sweeps, and the entry-log files paired with generations.     *)
(*                                                                         *)
(* One host runs the store: it awaits each call on the store before the    *)
(* next, and goes on appending to its entry log meanwhile.  A snapshot's   *)
(* bytes are named by the log index it includes; every snapshot has the    *)
(* same size, so that a size never tells two of them apart.                *)
(***************************************************************************)
EXTENDS Naturals, FiniteSetsExt

CONSTANTS
  Roles,              \* the structures of a snapshot
  MaxGen, MaxIndex,   \* bounds: generations, log entries
  Hosts,              \* the hosts looked at, each the set of its faults: "flush", the
                      \* flush of a manifest may fail; "undelete", a power cut may
                      \* bring back a deleted file; "locked", a deletion may fail;
                      \* "kill", its process may be killed with no power cut;
                      \* "trust", it opens an empty log file as a log
  Absent, Empty, Garbage   \* no file; no bytes (of a snapshot's data: too few);
                           \* a damaged file of the full size

ASSUME BoundsAssumption == MaxGen \in Nat /\ MaxIndex \in Nat

\* A snapshot holds the copy of at least one structure.
ASSUME RolesAssumption == Roles # {}

VARIABLES
  host,               \* the faults of the host
  dir,                \* the files the host sees
  stable,             \* for each file, what a power cut may leave of it
  state,              \* of the store: "down", "opening", "open"
  latest,             \* the adopted manifest
  nextGen,            \* next_gen
  tx,                 \* the transaction in progress
  sweep,              \* the files a call in progress still has to remove
  log, newlog,        \* the live entry log, and the one it is compacted into
  acked,              \* history: the last index acknowledged by a log sync
  committed           \* history: the index of the last commit that returned

vars == <<host, dir, stable, state, latest, nextGen, tx, sweep, log, newlog, acked, committed>>

Gens == 1..MaxGen

DataName(g, r)  == <<"data", g, r>>
ManifestName(g) == <<"manifest", g>>
LogName(g)      == <<"log", g>>

LogNames  == {LogName(g) : g \in 0..MaxGen}
SnapNames == {DataName(g, r) : g \in Gens, r \in Roles} \cup {ManifestName(g) : g \in Gens}
Names     == LogNames \cup SnapNames

Data(i)        == [data |-> i]
Log(b, l)      == [base |-> b, last |-> l]
Manifest(i, s) == [idx |-> i, crc |-> s]

NoSnap == [gen |-> 0, idx |-> 0, crc |-> <<>>]
NoTx   == [step |-> "none"]
NoLog  == <<>>

Unreadable == {Absent, Empty, Garbage}

DataFiles     == {Data(i) : i \in 0..MaxIndex}
LogFiles      == {Log(b, l) : b \in 0..MaxIndex, l \in 0..MaxIndex}
ManifestFiles == {Manifest(i, s) : i \in 0..MaxIndex, s \in [Roles -> DataFiles]}
Contents      == Unreadable \cup DataFiles \cup LogFiles \cup ManifestFiles

ASSUME MarkersAssumption ==
  /\ Absent # Empty
  /\ Unreadable \cap (DataFiles \cup LogFiles \cup ManifestFiles) = {}

-----------------------------------------------------------------------------
(* The host directory.                                                     *)

\* Writing: until the flush a power cut may leave the file as it was, or torn.
Write(n, c) ==
  /\ dir' = [dir EXCEPT ![n] = c]
  /\ stable' = [stable EXCEPT ![n] = @ \cup {Empty, Garbage, c}]

WriteDurably(n, c) ==
  /\ dir' = [dir EXCEPT ![n] = c]
  /\ stable' = [stable EXCEPT ![n] = {c}]

\* Opening a file for writing creates it and keeps what it holds, until c is
\* written to it.
Create(n, c) ==
  /\ dir' = [dir EXCEPT ![n] = IF @ = Absent THEN Empty ELSE @]
  /\ stable' = [stable EXCEPT ![n] = @ \cup {Empty, Garbage, c}]

\* Every directory a power cut may leave.
CrashedDirs ==
  LET unsettled == {n \in Names : stable[n] # {dir[n]}}
      outcomes  == {f \in [unsettled -> UNION {stable[n] : n \in unsettled}] :
                      \A n \in unsettled : f[n] \in stable[n]}
  IN  {[n \in Names |-> IF n \in unsettled THEN f[n] ELSE dir[n]] : f \in outcomes}

-----------------------------------------------------------------------------
(* Open: sst_scan, sst_try_manifest, sst_confirm and sst_sweep_plan.       *)
(* Definitions named after another one with an underscore are faulty       *)
(* variants of it: they show that the runs would notice.                   *)

Present == {n \in Names : dir[n] # Absent}

\* Every name counts, a log's too.
ScannedNextGen == 1 + Max({0} \cup {n[2] : n \in Present})

\* The manifest is whole and its files are there at their recorded sizes.
Valid(g) ==
  /\ dir[ManifestName(g)] \notin Unreadable
  /\ \A r \in DOMAIN dir[ManifestName(g)].crc :
       dir[DataName(g, r)] \notin {Absent, Empty}

NewestValid == Max({0} \cup {g \in Gens : Valid(g)})

Adopted(g) ==
  IF g = 0 THEN NoSnap
  ELSE [gen |-> g, idx |-> dir[ManifestName(g)].idx, crc |-> dir[ManifestName(g)].crc]

Open ==
  /\ state = "down"
  /\ state' = "opening"
  /\ nextGen' = ScannedNextGen
  /\ latest' = Adopted(NewestValid)
  /\ sweep' = {n \in Present \cap SnapNames : n[2] # NewestValid}
  /\ UNCHANGED <<dir, stable, tx, log, newlog, acked, committed>>

\* A deletion that fails is passed over and leaves the file.  One that succeeds may not
\* be durable: the file is then back after a power cut.
Remove(n) ==
  /\ n \in sweep
  /\ sweep' = sweep \ {n}
  /\ \/ /\ dir' = [dir EXCEPT ![n] = Absent]
        /\ stable' = [stable EXCEPT ![n] = {Absent} \cup (IF "undelete" \in host THEN @ ELSE {})]
     \/ "locked" \in host /\ UNCHANGED <<dir, stable>>
  /\ UNCHANGED <<state, latest, nextGen, tx, log, newlog, acked, committed>>

Opened ==
  /\ state = "opening" /\ sweep = {}
  /\ state' = "open"
  /\ UNCHANGED <<dir, stable, latest, nextGen, tx, sweep, log, newlog, acked, committed>>

\* The host's one call at a time.
Idle == state = "open" /\ sweep = {}

Close ==
  /\ Idle /\ tx = NoTx
  /\ state' = "down"
  /\ latest' = NoSnap
  /\ UNCHANGED <<dir, stable, nextGen, tx, sweep, log, newlog, acked, committed>>

-----------------------------------------------------------------------------
(* A transaction.                                                          *)

Begin ==
  /\ Idle /\ tx = NoTx
  /\ nextGen <= MaxGen
  /\ tx' = [step |-> "writing", gen |-> nextGen, idx |-> acked, made |-> {}, full |-> {}]
  /\ UNCHANGED <<dir, stable, state, latest, nextGen, sweep, log, newlog, acked, committed>>

Writing == Idle /\ tx.step = "writing"

CreateFile(r) ==
  /\ Writing /\ r \notin tx.made
  /\ Create(DataName(tx.gen, r), Data(tx.idx))
  /\ tx' = [tx EXCEPT !.made = @ \cup {r}]
  /\ UNCHANGED <<state, latest, nextGen, sweep, log, newlog, acked, committed>>

\* The copy is not flushed.
FillFile_Unflushed(r) ==
  /\ Writing /\ r \in tx.made \ tx.full
  /\ Write(DataName(tx.gen, r), Data(tx.idx))
  /\ tx' = [tx EXCEPT !.full = @ \cup {r}]
  /\ UNCHANGED <<state, latest, nextGen, sweep, log, newlog, acked, committed>>

\* The structure's compact writes the whole copy and flushes it.  What a crash
\* in between leaves is what one before it may leave.
FillFile(r) ==
  /\ Writing /\ r \in tx.made \ tx.full
  /\ WriteDurably(DataName(tx.gen, r), Data(tx.idx))
  /\ tx' = [tx EXCEPT !.full = @ \cup {r}]
  /\ UNCHANGED <<state, latest, nextGen, sweep, log, newlog, acked, committed>>

\* The files are checksummed as they are and the manifest written.
WriteManifest ==
  /\ Writing /\ tx.full = Roles
  /\ Write(ManifestName(tx.gen),
           Manifest(tx.idx, [r \in Roles |-> dir[DataName(tx.gen, r)]]))
  /\ tx' = [tx EXCEPT !.step = "sealing"]
  /\ UNCHANGED <<state, latest, nextGen, sweep, log, newlog, acked, committed>>

\* The flush is left out.
FlushManifest_Skipped ==
  /\ Idle /\ tx.step = "sealing"
  /\ tx' = [tx EXCEPT !.step = "sealed"]
  /\ UNCHANGED <<dir, stable, state, latest, nextGen, sweep, log, newlog, acked, committed>>

\* When it fails, commit throws: the transaction can only be aborted.
FlushManifest ==
  /\ Idle /\ tx.step = "sealing"
  /\ \/ /\ stable' = [stable EXCEPT ![ManifestName(tx.gen)] = {dir[ManifestName(tx.gen)]}]
        /\ tx' = [tx EXCEPT !.step = "sealed"]
     \/ /\ "flush" \in host
        /\ tx' = [tx EXCEPT !.step = "failed"]
        /\ UNCHANGED stable
  /\ UNCHANGED <<dir, state, latest, nextGen, sweep, log, newlog, acked, committed>>

\* The files of the adopted generation.
FilesOf(s) ==
  IF s = NoSnap THEN {}
  ELSE {ManifestName(s.gen)} \cup {DataName(s.gen, r) : r \in DOMAIN s.crc}

\* The generation number is not used up.
AdoptCommitted_KeepsNextGen ==
  /\ Idle /\ tx.step = "sealed"
  /\ latest' = Adopted(tx.gen)
  /\ sweep' = IF latest.gen = tx.gen THEN {} ELSE FilesOf(latest)
  /\ committed' = tx.idx
  /\ tx' = NoTx
  /\ UNCHANGED <<dir, stable, state, nextGen, log, newlog, acked>>

\* sst_adopt_committed; commit then removes the predecessor.
AdoptCommitted ==
  /\ Idle /\ tx.step = "sealed"
  /\ latest' = Adopted(tx.gen)
  /\ nextGen' = Max({nextGen, tx.gen + 1})
  /\ sweep' = IF latest.gen = tx.gen THEN {} ELSE FilesOf(latest)
  /\ committed' = tx.idx
  /\ tx' = NoTx
  /\ UNCHANGED <<dir, stable, state, log, newlog, acked>>

Abort ==
  /\ Idle /\ tx.step \in {"writing", "failed"}
  /\ sweep' = {DataName(tx.gen, r) : r \in tx.made}
  /\ tx' = NoTx
  /\ UNCHANGED <<dir, stable, state, latest, nextGen, log, newlog, acked, committed>>

-----------------------------------------------------------------------------
(* The entry logs.                                                         *)

\* elog_sync on the live log, while no compaction is in flight.
AppendLog ==
  /\ log # NoLog /\ newlog = NoLog
  /\ dir[log].last < MaxIndex
  /\ LET l == Log(dir[log].base, dir[log].last + 1) IN
     WriteDurably(log, l) /\ acked' = l.last
  /\ UNCHANGED <<state, latest, nextGen, tx, sweep, log, newlog, committed>>

\* createLogFile, once for each generation.
CreateLogFile ==
  /\ Idle /\ log # NoLog /\ newlog = NoLog
  /\ latest # NoSnap /\ log # LogName(latest.gen)
  /\ newlog' = LogName(latest.gen)
  /\ Create(LogName(latest.gen), Log(latest.idx, dir[log].last))
  /\ UNCHANGED <<state, latest, nextGen, tx, sweep, log, acked, committed>>

\* The copy is not flushed before the others are deleted.
CompactLog_Unflushed ==
  /\ Idle /\ newlog # NoLog
  /\ Write(newlog, Log(latest.idx, dir[log].last))
  /\ log' = newlog /\ newlog' = NoLog
  /\ sweep' = {n \in Present \cap LogNames : n # newlog}
  /\ UNCHANGED <<state, latest, nextGen, tx, acked, committed>>

\* EntryLog.compact at the snapshot's boundary, flushed; the host opens the copy
\* as its log and pruneLogs deletes the others.
CompactLog ==
  /\ Idle /\ newlog # NoLog
  /\ WriteDurably(newlog, Log(latest.idx, dir[log].last))
  /\ log' = newlog /\ newlog' = NoLog
  /\ sweep' = {n \in Present \cap LogNames : n # newlog}
  /\ UNCHANGED <<state, latest, nextGen, tx, acked, committed>>

\* What the file holds is not looked at.
LogOpens_Unchecked(n) == dir[n] # Absent

\* At a restart: the newest candidate that opens.  EntryLog.open starts a new log
\* on an empty file.
LogOpens(n) ==
  \/ dir[n] \notin Unreadable
  \/ dir[n] = Empty /\ "trust" \in host

OpenLog ==
  /\ Idle /\ log = NoLog
  /\ \E n \in Present \cap LogNames :
       /\ LogOpens(n)
       /\ \A o \in Present \cap LogNames : o[2] > n[2] => ~LogOpens(o)
       /\ log' = n
       /\ IF dir[n] = Empty THEN Write(n, Log(latest.idx, latest.idx))
                            ELSE UNCHANGED <<dir, stable>>
  /\ UNCHANGED <<state, latest, nextGen, tx, sweep, newlog, acked, committed>>

-----------------------------------------------------------------------------
Init ==
  /\ host \in Hosts
  /\ dir = [n \in Names |-> IF n = LogName(0) THEN Log(0, 0) ELSE Absent]
  /\ stable = [n \in Names |-> {dir[n]}]
  /\ state = "down" /\ latest = NoSnap /\ nextGen = 1
  /\ tx = NoTx /\ sweep = {}
  /\ log = NoLog /\ newlog = NoLog
  /\ acked = 0 /\ committed = 0

\* A power cut, at any time.
Crash ==
  /\ dir' \in CrashedDirs
  /\ stable' = [n \in Names |-> {dir'[n]}]
  /\ state' = "down" /\ latest' = NoSnap /\ nextGen' = 1
  /\ tx' = NoTx /\ sweep' = {}
  /\ log' = NoLog /\ newlog' = NoLog
  /\ UNCHANGED <<acked, committed>>

\* The files a call in progress is writing.
Unfinished ==
  {DataName(tx.gen, r) : r \in IF tx = NoTx THEN {} ELSE tx.made \ tx.full}
  \cup {ManifestName(g) : g \in IF tx.step = "sealing" THEN {tx.gen} ELSE {}}
  \cup {newlog}

\* The process ends alone: what it wrote is still there for the next one, and still not
\* durable where it was not flushed.
Kill ==
  /\ "kill" \in host /\ state # "down"
  /\ dir' \in {d \in CrashedDirs : \A n \in Names :
                 d[n] = dir[n] \/ (n \in Unfinished /\ d[n] # Absent)}
  /\ state' = "down" /\ latest' = NoSnap /\ nextGen' = 1
  /\ tx' = NoTx /\ sweep' = {}
  /\ log' = NoLog /\ newlog' = NoLog
  /\ UNCHANGED <<stable, acked, committed>>

Next ==
  /\ \/ Open \/ Opened \/ Close
     \/ \E n \in Names : Remove(n)
     \/ Begin
     \/ \E r \in Roles : CreateFile(r) \/ FillFile(r)
     \/ WriteManifest \/ FlushManifest \/ AdoptCommitted \/ Abort
     \/ AppendLog \/ CreateLogFile \/ CompactLog \/ OpenLog
     \/ Crash \/ Kill
  /\ UNCHANGED host

Spec == Init /\ [][Next]_vars

-----------------------------------------------------------------------------
(* Correctness.                                                            *)

\* The variables keep their types, the host's view of a file is one a power cut may
\* leave, and the live log is a readable one.
TypeOK ==
  /\ \A n \in Names : dir[n] \in Contents /\ stable[n] \subseteq Contents
  /\ \A n \in Names : dir[n] \in stable[n]
  /\ state \in {"down", "opening", "open"}
  /\ latest.gen \in 0..MaxGen /\ latest.idx \in 0..MaxIndex
  /\ nextGen \in 1..(MaxGen + 1)
  /\ tx.step \in {"none", "writing", "sealing", "sealed", "failed"}
  /\ sweep \subseteq Names
  /\ log # NoLog => log \in LogNames /\ dir[log] \notin Unreadable
  /\ newlog \in LogNames \cup {NoLog}

\* verify() would pass at any time: the adopted generation's files are those its
\* manifest was written for, never a mix of two snapshots.
AdoptedVerifies ==
  state # "down" =>
    \A r \in DOMAIN latest.crc :
      dir[DataName(latest.gen, r)] = latest.crc[r] /\ latest.crc[r] = Data(latest.idx)

\* That is so where no commit throws (after one that does, a retry writes its data under
\* the manifest it left).
VerifiesUnlessThrown == "flush" \notin host => AdoptedVerifies

\* A commit that returned is never lost: whatever follows, open adopts that snapshot or a
\* newer one, and every structure's copy in it is the one taken at its index.
CommittedKept ==
  state # "down" =>
    /\ latest.idx >= committed
    /\ latest # NoSnap => \A r \in Roles : dir[DataName(latest.gen, r)] = Data(latest.idx)

\* That is so, whatever power cuts, deletions undone or failed and unfinished transactions
\* follow, where no manifest stays that was never flushed: no commit throws (a retry may
\* take the place of the snapshot: AdoptedVerifies) and no process is killed.
CommittedSurvives == host \cap {"flush", "kill"} = {} => CommittedKept

\* Where no commit throws, the generation being written is one that no manifest, not even
\* one a crash could bring back, already commits.
FreshGeneration ==
  "flush" \notin host /\ tx.step = "writing" => stable[ManifestName(tx.gen)] \subseteq Unreadable

\* The log adopted after a restart holds every acknowledged entry and continues the
\* adopted snapshot without a gap.
Recoverable ==
  Idle /\ log # NoLog =>
    /\ dir[log].last = acked
    /\ dir[log].base <= latest.idx

\* That is so where no process is killed, unless deletions fail after a commit that threw
\* or an empty log file is opened as a log.
RecoverableUnlessKilled == "kill" \notin host => Recoverable
=============================================================================
