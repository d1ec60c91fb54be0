------------------------------ MODULE EntryLogInv ------------------------------
(***************************************************************************)
(* The inductive invariants of EntryLog.  TableInv: the offset table       *)
(* points at records of the right index.  RecoveryInv: a replay of the     *)
(* file rebuilds that table.  FloorInv: what a durable commit recorded as  *)
(* committed is never written over.                                        *)
(***************************************************************************)
EXTENDS EntryLog

LastBase(f) == f[Len(f)].base

\* All of f's metadata records have base b, and a record of index i comes after
\* records of every index between the base and i.
WellFormed(f, b) ==
  /\ \A p \in 1..Len(f) : f[p].kind = "meta" => f[p].base = b
  /\ \A p \in EntryPos(f) :
       /\ f[p].index > b.index
       /\ \A i \in (b.index + 1)..f[p].index :
            \E q \in EntryPos(f) : q <= p /\ f[q].index = i

\* A whole number of commits of one log.
WholeLog(f) == f[Len(f)].kind = "meta" /\ WellFormed(f, LastBase(f))

\* The first n slots of tbl point at entry records of f of their own index.
Slots(tbl, n, b, f) ==
  /\ n <= Len(tbl)
  /\ \A j \in 1..n : tbl[j].off \in EntryPos(f) /\ f[tbl[j].off].index = b.index + j

ClosedState == pend = <<>> /\ dst = NoDst

OpenState ==
  /\ file # <<>> /\ base = LastBase(file)
  /\ WellFormed(Image, base)
  /\ base.index <= cm.last /\ cm.last <= m.last
  /\ m.n = m.last - base.index /\ cm.n = cm.last - base.index
  /\ Slots(ents, m.n, base, Image)
  /\ Slots(ents, cm.n, base, file)

\* Every commit and every compacted copy is a log of one base without gaps; an open
\* handle's live slots point into the file and the buffer, and the slots a
\* rollback returns to point into the file alone.
TableInv ==
  /\ TypeOK
  /\ file # <<>> => WholeLog(file)
  /\ dst # NoDst => WholeLog(dst) /\ pend = <<>>
  /\ IF up THEN OpenState ELSE ClosedState

-----------------------------------------------------------------------------
(* Recovery.                                                               *)

\* The first n slots of tbl hold the term of the newest record of their index.
Current(tbl, n, b, f) ==
  \A j \in 1..n :
    /\ tbl[j].term = f[tbl[j].off].term
    /\ \A p \in EntryPos(f) : p > tbl[j].off => f[p].index # b.index + j

\* Terms never fall along the first n slots.
Rising(tbl, n, b) ==
  \A j \in 1..n : tbl[j].term >= b.term /\ \A i \in 1..j : tbl[i].term <= tbl[j].term

\* The bounds of s agree with its slots and with each other.
Bounds(s, tbl, b) ==
  /\ s.lastTerm = IF s.n = 0 THEN b.term ELSE tbl[s.n].term
  /\ s.term >= s.lastTerm
  /\ s.commit <= s.last

\* elog_open accepts f and hands out entries whose terms never fall.
Sound(f) ==
  /\ Openable(f)
  /\ Rising(RecoveredEnts(f), RecoveredMeta(f).n, LastBase(f))

\* The records can be replayed at any moment, and reach the last live entry.
OpenRecovery ==
  /\ Current(ents, m.n, base, Image)
  /\ Rising(ents, m.n, base)
  /\ Bounds(m, ents, base) /\ Bounds(cm, ents, base)
  /\ Replays(Image, base)
  /\ RawLast(Image, base) >= m.last /\ RawLast(file, base) >= cm.last

\* Every state a crash or a compaction can leave is a sound log, and so is the next
\* commit of an open handle.
RecoveryInv ==
  /\ \A k \in CF!CrashPoints(file, safe) : k > 0 => Sound(SubSeq(file, 1, k))
  /\ dst # NoDst => Sound(dst)
  /\ up => OpenRecovery

-----------------------------------------------------------------------------
(* The durable commit index.                                               *)

\* The commit index of the newest durable commit bounds everything written since
\* from below; a compaction copies the live log.
FloorInv ==
  /\ safe > 0 =>
       /\ CF!IsMeta(file[safe])
       /\ \A p \in (safe + 1)..Len(Image) :
            /\ Image[p].kind = "entry" => Image[p].index > file[safe].commit
            /\ Image[p].kind = "meta" => Image[p].commit >= file[safe].commit
       /\ up => m.commit >= file[safe].commit /\ cm.commit >= file[safe].commit
  /\ dst # NoDst => \E nb \in base.index..m.last : dst = Compacted(nb)
=============================================================================
