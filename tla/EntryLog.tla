------------------------------- MODULE EntryLog -------------------------------
(***************************************************************************)
(* src/entrylog.c: the persistent Raft log.  Entries are buffered, a       *)
(* metadata record ends each commit, suffix truncation only moves the      *)
(* metadata's bounds back, and open rebuilds the offset table by replaying *)
(* every entry record in file order.                                       *)
(*                                                                         *)
(* The file is a sequence of records; a commit's CRC trailer is folded     *)
(* into its metadata record, which CommitFile's crash rule justifies.  An  *)
(* offset is a record's position in that sequence.                         *)
(***************************************************************************)
EXTENDS Naturals, Sequences, Replay

CONSTANTS
  Node, NoVote,       \* vote targets, and EL_VOTED_NONE
  Value,              \* entry payloads
  Bases,              \* [index, term] a new log may be created at
  MaxTerm,            \* bound: highest term
  MaxIndex,           \* bound: highest entry index (the code limits how many are live)
  MaxRecs,            \* bound: records in file and buffer together
  Faults,             \* which calls may fail: "encode", "write", "sync"
  Down, Absent        \* RaftLog's markers: no open handle, no log left

ASSUME NoVoteAssumption == NoVote \notin Node
ASSUME BoundsAssumption == MaxTerm \in Nat /\ MaxIndex \in Nat /\ MaxRecs \in Nat
ASSUME BasesAssumption  == Bases \subseteq [index : 0..MaxIndex, term : 0..MaxTerm]

VARIABLES
  file, safe,         \* the committed records, and how many are durable
  up,                 \* a handle is open
  pend,               \* f.wb: the appends not yet handed to the host
  base,               \* base_index and base_term
  m, cm,              \* the live el_meta and the one last committed
  ents,               \* the offset table; m.n of its slots are live
  dst,                \* the destination of a compaction not yet adopted
  votes               \* history: the <<term, node>> votes answered with BJ_OK

vars == <<file, safe, up, pend, base, m, cm, ents, dst, votes>>

Terms   == 0..MaxTerm
Indexes == 0..MaxIndex
NoDst   == <<>>

CF == INSTANCE CommitFile WITH Batches <- {}

-----------------------------------------------------------------------------
(* Records.                                                                *)

Header == [kind |-> "header"]
Entry(i, t, v) == [kind |-> "entry", index |-> i, term |-> t, val |-> v]
Metadata(b, s) ==
  [kind |-> "meta", base |-> b, last |-> s.last, lastTerm |-> s.lastTerm,
   term |-> s.term, vote |-> s.vote, commit |-> s.commit]

\* Readers see the pending buffer right after the committed bytes.
Image == file \o pend

-----------------------------------------------------------------------------
(* elog_open on a file that ends with a whole commit.                      *)

Openable(f) ==
  /\ f # <<>>
  /\ LET md == f[Len(f)] IN
     /\ CF!IsMeta(md)
     /\ md.last >= md.base.index
     /\ md.lastTerm >= md.base.term
     /\ md.term >= md.lastTerm
     /\ md.commit <= md.last
     /\ Replays(f, md.base)
     /\ RawLast(f, md.base) >= md.last
     /\ md.lastTerm = IF md.last = md.base.index
                      THEN md.base.term
                      ELSE f[SlotPos(f, md.last)].term

RecoveredMeta(f) ==
  LET md == f[Len(f)] IN
  [last |-> md.last, lastTerm |-> md.lastTerm, term |-> md.term,
   vote |-> md.vote, commit |-> md.commit, n |-> md.last - md.base.index]

RecoveredEnts(f) == ReplayTable(f, f[Len(f)].base)

LoadFrom(f) ==
  /\ base' = f[Len(f)].base
  /\ m' = RecoveredMeta(f)
  /\ cm' = RecoveredMeta(f)
  /\ ents' = RecoveredEnts(f)

FreshMeta(b) ==
  [last |-> b.index, lastTerm |-> b.term, term |-> b.term, vote |-> NoVote,
   commit |-> b.index, n |-> 0]

NoMeta == FreshMeta([index |-> 0, term |-> 0])

-----------------------------------------------------------------------------
Init ==
  /\ file = <<>> /\ safe = 0
  /\ up = FALSE /\ pend = <<>>
  /\ base = [index |-> 0, term |-> 0]
  /\ m = NoMeta /\ cm = NoMeta /\ ents = <<>>
  /\ dst = NoDst
  /\ votes = {}

\* elog_create_at: header and metadata are committed, not synced.
Create(b) ==
  /\ ~up /\ file = <<>>
  /\ up' = TRUE
  /\ base' = b
  /\ m' = FreshMeta(b) /\ cm' = FreshMeta(b) /\ ents' = <<>>
  /\ file' = <<Header, Metadata(b, FreshMeta(b))>>
  /\ UNCHANGED <<safe, pend, dst, votes>>

\* elog_open: the file was already cut back to a whole commit.
Open ==
  /\ ~up /\ Openable(file)
  /\ up' = TRUE
  /\ LoadFrom(file)
  /\ UNCHANGED <<file, safe, pend, dst, votes>>

\* elog_free, a process exit or a power cut: the buffer and any compaction in
\* flight are gone, and the file keeps a whole number of commits.
Crash ==
  /\ \E k \in CF!CrashPoints(file, safe) : file' = SubSeq(file, 1, k)
  /\ up' = FALSE
  /\ pend' = <<>>
  /\ base' = [index |-> 0, term |-> 0]
  /\ m' = NoMeta /\ cm' = NoMeta /\ ents' = <<>>
  /\ dst' = NoDst
  /\ UNCHANGED <<safe, votes>>

-----------------------------------------------------------------------------
(* Every operation needs an open handle and no compaction in flight.       *)
(* Definitions named after another one with an underscore are faulty       *)
(* variants of it: they show that the runs would notice.                   *)

Ready(room) == up /\ dst = NoDst /\ Len(Image) + room <= MaxRecs

\* The live state is not rolled back.
Discard_KeepsState == pend' = <<>> /\ UNCHANGED m

Discard == pend' = <<>> /\ m' = cm

\* commit_state for the live state s, with the answers the host may give.
CommitOk(s) ==
  /\ file' = Append(Image, Metadata(base, s))
  /\ safe' = Len(file')
  /\ pend' = <<>>
  /\ m' = s /\ cm' = s

CommitFails(s) ==
  /\ \/ "write" \in Faults /\ UNCHANGED file
     \/ "sync" \in Faults /\ file' = Append(Image, Metadata(base, s))
  /\ UNCHANGED <<safe, cm>>
  /\ Discard

CommitState(s) == CommitOk(s) \/ CommitFails(s)

\* The index limit is off by one.
AppendEntry_OffByOne(t, v) ==
  /\ Ready(2)
  /\ t >= m.lastTerm /\ t <= m.term
  /\ m.last <= MaxIndex
  /\ pend' = Append(pend, Entry(m.last + 1, t, v))
  /\ ents' = Append(ents, [off |-> Len(Image) + 1, term |-> t])
  /\ m' = [m EXCEPT !.last = @ + 1, !.lastTerm = t, !.n = @ + 1]
  /\ UNCHANGED <<file, safe, up, base, cm, dst, votes>>

\* A slot freed by a truncation or a rollback is not taken again.
AppendEntry_NewSlot(t, v) ==
  /\ Ready(2)
  /\ t >= m.lastTerm /\ t <= m.term
  /\ m.last < MaxIndex
  /\ pend' = Append(pend, Entry(m.last + 1, t, v))
  /\ ents' = Append(ents, [off |-> Len(Image) + 1, term |-> t])
  /\ m' = [m EXCEPT !.last = @ + 1, !.lastTerm = t, !.n = @ + 1]
  /\ UNCHANGED <<file, safe, up, base, cm, dst, votes>>

AppendEntry(t, v) ==
  /\ Ready(2)
  /\ t >= m.lastTerm /\ t <= m.term
  /\ m.last < MaxIndex
  /\ \/ LET slot == [off |-> Len(Image) + 1, term |-> t] IN
        /\ pend' = Append(pend, Entry(m.last + 1, t, v))
        /\ ents' = IF m.n < Len(ents) THEN [ents EXCEPT ![m.n + 1] = slot]
                                      ELSE Append(ents, slot)
        /\ m' = [m EXCEPT !.last = @ + 1, !.lastTerm = t, !.n = @ + 1]
     \/ "encode" \in Faults /\ Discard /\ UNCHANGED ents
  /\ UNCHANGED <<file, safe, up, base, cm, dst, votes>>

Sync ==
  /\ Ready(1)
  /\ CommitState(m)
  /\ UNCHANGED <<up, base, ents, dst, votes>>

\* One vote per term; naming no one keeps the vote of the current term.
VoteAllowed(t, v) ==
  t > m.term \/ (t = m.term /\ (v = NoVote \/ m.vote \in {NoVote, v}))

\* Naming no one clears the vote of the current term.
HardState_ClearsVote(t, v) == [m EXCEPT !.term = t, !.vote = v]

HardState(t, v) ==
  IF t = m.term THEN [m EXCEPT !.vote = IF v = NoVote THEN @ ELSE v]
                ELSE [m EXCEPT !.term = t, !.vote = v]

SetHardState(t, v) ==
  /\ Ready(1)
  /\ VoteAllowed(t, v)
  /\ \/ /\ CommitOk(HardState(t, v))
        /\ votes' = IF v = NoVote THEN votes ELSE votes \cup {<<t, v>>}
     \/ CommitFails(HardState(t, v)) /\ UNCHANGED votes
  /\ UNCHANGED <<up, base, ents, dst>>

\* The commit index may fall.
SetCommitIndex_Falls(i) ==
  /\ Ready(0)
  /\ i \in base.index..m.last
  /\ m' = [m EXCEPT !.commit = i]
  /\ UNCHANGED <<file, safe, up, pend, base, cm, ents, dst, votes>>

\* Staged: rides along with the next commit.
SetCommitIndex(i) ==
  /\ Ready(0)
  /\ i \in m.commit..m.last
  /\ m' = [m EXCEPT !.commit = i]
  /\ UNCHANGED <<file, safe, up, pend, base, cm, ents, dst, votes>>

\* Committed entries may be truncated.
TruncateFrom_Committed(i) ==
  /\ Ready(1)
  /\ i \in (base.index + 1)..m.last
  /\ pend = <<>>
  /\ CommitState(
       [m EXCEPT !.last = i - 1,
                 !.lastTerm = IF i - 1 = base.index THEN base.term
                              ELSE ents[i - base.index - 1].term,
                 !.commit = IF @ < i THEN @ ELSE i - 1,
                 !.n = i - 1 - base.index])
  /\ UNCHANGED <<up, base, ents, dst, votes>>

TruncateFrom(i) ==
  /\ Ready(1)
  /\ i \in (base.index + 1)..m.last
  /\ pend = <<>>
  /\ i > m.commit
  /\ CommitState(
       [m EXCEPT !.last = i - 1,
                 !.lastTerm = IF i - 1 = base.index THEN base.term
                              ELSE ents[i - base.index - 1].term,
                 !.n = i - 1 - base.index])
  /\ UNCHANGED <<up, base, ents, dst, votes>>

-----------------------------------------------------------------------------
(* elog_compact writes the live suffix to another file; the host adopts it *)
(* by opening it in place of this one.                                     *)

TermAt(i) == IF i = base.index THEN base.term ELSE ents[i - base.index].term

\* The last entry is not copied.
Compacted_DropsLast(nb) ==
  LET b == [index |-> nb, term |-> TermAt(nb)] IN
  <<Header>>
    \o [j \in 1..(m.last - nb - 1) |-> Image[ents[nb - base.index + j].off]]
    \o <<Metadata(b, [m EXCEPT !.commit = IF @ < nb THEN nb ELSE @])>>

Compacted(nb) ==
  LET b == [index |-> nb, term |-> TermAt(nb)] IN
  <<Header>>
    \o [j \in 1..(m.last - nb) |-> Image[ents[nb - base.index + j].off]]
    \o <<Metadata(b, [m EXCEPT !.commit = IF @ < nb THEN nb ELSE @])>>

Compact(nb) ==
  /\ Ready(0)
  /\ nb \in base.index..m.last
  /\ pend = <<>>
  /\ dst' = Compacted(nb)
  /\ UNCHANGED <<file, safe, up, pend, base, m, cm, ents, votes>>

\* The host flushed dst, and opens it as the log.
AdoptCompacted ==
  /\ up /\ dst # NoDst /\ Openable(dst)
  /\ file' = dst /\ safe' = Len(dst)
  /\ LoadFrom(dst)
  /\ dst' = NoDst
  /\ UNCHANGED <<up, pend, votes>>

Next ==
  \/ \E b \in Bases : Create(b)
  \/ Open
  \/ Crash
  \/ \E t \in Terms, v \in Value : AppendEntry(t, v)
  \/ Sync
  \/ \E t \in Terms, v \in Node \cup {NoVote} : SetHardState(t, v)
  \/ \E i \in Indexes : SetCommitIndex(i) \/ TruncateFrom(i) \/ Compact(i)
  \/ AdoptCompacted

Spec == Init /\ [][Next]_vars
-----------------------------------------------------------------------------
(* Correctness.                                                            *)

EntryRecs == [kind : {"entry"}, index : Indexes, term : Terms, val : Value]
BaseRecs  == [index : Indexes, term : Terms]
MetaRecs  == [kind : {"meta"}, base : BaseRecs, last : Indexes, lastTerm : Terms,
              term : Terms, vote : Node \cup {NoVote}, commit : Indexes]
Records   == {Header} \cup EntryRecs \cup MetaRecs
MetaState == [last : Indexes, lastTerm : Terms, term : Terms,
              vote : Node \cup {NoVote}, commit : Indexes, n : Indexes]

\* The variables keep their types; the durable prefix lies within the file.
TypeOK ==
  /\ file \in Seq(Records) /\ dst \in Seq(Records) /\ pend \in Seq(EntryRecs)
  /\ safe \in 0..Len(file)
  /\ up \in BOOLEAN
  /\ base \in BaseRecs
  /\ m \in MetaState /\ cm \in MetaState
  /\ ents \in Seq([off : Nat, term : Terms])
  /\ votes \subseteq Terms \X Node

\* Whatever a crash leaves of the file, and whatever a compaction wrote, elog_open
\* accepts it: no sequence of appends, truncations and failed commits makes the
\* replay meet a gap, fall short of the metadata or contradict its last term.
Reopenable ==
  /\ \A k \in CF!CrashPoints(file, safe) : k > 0 => Openable(SubSeq(file, 1, k))
  /\ dst # NoDst => Openable(dst)

\* elog_verify, run on the open handle at any time, finds nothing wrong: every
\* live slot points at the record of its own index and term, terms never fall,
\* and the bounds agree.
Verifies ==
  up =>
    /\ m.n = m.last - base.index
    /\ m.n <= Len(ents)
    /\ \A j \in 1..m.n :
         /\ ents[j].off \in EntryPos(Image)
         /\ Image[ents[j].off].index = base.index + j
         /\ Image[ents[j].off].term = ents[j].term
         /\ ents[j].term >= TermAt(base.index + j - 1)
    /\ m.lastTerm = TermAt(m.last)
    /\ m.term >= m.lastTerm
    /\ m.commit <= m.last

\* The term and vote in s are those of vote v, or of a later term.
Keeps(s, v) == s.term > v[1] \/ (s.term = v[1] /\ s.vote = v[2])

\* A vote that was answered is the only one of its term, and every state a crash
\* can lead to still has it or is in a later term (elog_set_hard_state is
\* durable before it returns).
VotesKept ==
  \A v \in votes :
    /\ \A w \in votes : w[1] = v[1] => w = v
    /\ safe > 0
    /\ \A k \in CF!CrashPoints(file, safe) : Keeps(file[k], v)
    /\ up => Keeps(m, v) /\ Keeps(cm, v)
    /\ dst # NoDst => Keeps(dst[Len(dst)], v)

\* The state a handle with these fields shows its callers.
Shown(b, s, tbl, f) ==
  [base |-> b, term |-> s.term, vote |-> s.vote, commit |-> s.commit,
   log  |-> [j \in 1..s.n |-> [term |-> tbl[j].term, val |-> f[tbl[j].off].val]]]

Reopened(f) == Shown(f[Len(f)].base, RecoveredMeta(f), RecoveredEnts(f), f)

\* The comment on commit_state: a failed commit rolls the live state back "so the
\* memory picture always matches the file".  What a reopen would read is what the
\* handle holds as committed.
MemoryMatchesFile ==
  up => Shown(base, cm, ents, file) = Reopened(file)

\* The entries at or below the commit index of the newest durable commit, as
\* <<index, term, payload>>.
Committed(f) ==
  LET s == Reopened(f) IN
  {<<s.base.index + j, s.log[j].term, s.log[j].val>> : j \in 1..(s.commit - s.base.index)}

\* An entry a durable commit recorded as committed is in every state any later
\* crash can lead to, until a compaction moves it below the base.
CommittedNeverLost ==
  [][ safe > 0 =>
        \A e \in Committed(SubSeq(file, 1, safe)) :
          \A k \in CF!CrashPoints(file', safe') :
            LET s == Reopened(SubSeq(file', 1, k)) IN
            e[1] > s.base.index =>
              /\ e[1] <= s.base.index + Len(s.log)
              /\ s.log[e[1] - s.base.index] = [term |-> e[2], val |-> e[3]] ]_vars

\* Except when a compacted log replaces it, the file changes only in the ways
\* CommitFile allows: whole commits appended, whole unsynced commits lost.
FileDiscipline ==
  [][ \/ AdoptCompacted
      \/ \E b \in {SubSeq(file', Len(file) + 1, Len(file'))} :
           CF!Commit(b) \/ CF!CommitDurably(b)
      \/ CF!Crash ]_<<file, safe>>

LogStates ==
  [base : BaseRecs, term : Terms, vote : Node \cup {NoVote}, commit : Indexes,
   log : Seq([term : Terms, val : Value])]

ASSUME MarkersAssumption == Down \notin LogStates /\ Absent \notin LogStates

\* The log implements RaftLog.
RL == INSTANCE RaftLog WITH
  live   <- IF up THEN Shown(base, m, ents, Image) ELSE Down,
  saved  <- IF up THEN Shown(base, cm, ents, file) ELSE Down,
  stable <- {IF k = 0 THEN Absent ELSE Reopened(SubSeq(file, 1, k)) :
               k \in CF!CrashPoints(file, safe)}

RaftLogSpec == RL!Spec
=============================================================================
