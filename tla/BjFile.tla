--------------------------------- MODULE BjFile ---------------------------------
(***************************************************************************)
(* src/bjfile.c: an append-only record file with a pending-write buffer,    *)
(* CRC trailers and a recovery scan, over a host file that can fail a       *)
(* write half way, fail a sync, and lose what was not synced.               *)
(*                                                                         *)
(* Bytes are grouped into records; a record a write or a crash cut through *)
(* is Torn.  A CRC is the sequence of records it covers, so two CRCs agree *)
(* exactly when the covered bytes do.                                      *)
(***************************************************************************)
EXTENDS Naturals, Sequences, FiniteSetsExt, SequencesExt

CONSTANTS
  Payload,            \* what data records hold
  MaxRecs, MaxData,   \* bounds: records in the file and the buffer, data among them
  Faults              \* what may go wrong: "write", "sync", "reorder"

ASSUME MaxRecsAssumption == MaxRecs \in Nat

VARIABLES
  disk,               \* the host file as a reader sees it
  kept,               \* how many of its leading records a power cut spares
  open,               \* a bjfile is attached
  flen,               \* committed length
  wb,                 \* pending appends
  crc, crcCommitted,  \* running CRC, and the one to return to on discard
  reordered           \* history: a crash wrote unsynced records back out of order

vars == <<disk, kept, open, flen, wb, crc, crcCommitted, reordered>>

Data(v)    == [kind |-> "data", val |-> v]
Meta       == [kind |-> "meta"]
Trailer(s) == [kind |-> "trailer", sum |-> s]
Torn       == [kind |-> "torn"]

Is(f, p, k) == p \in 1..Len(f) /\ f[p].kind = k

-----------------------------------------------------------------------------
(* bjfile_scan_commits on a file f.  Definitions named after another one   *)
(* with an underscore are faulty variants of it: they show that the runs   *)
(* would notice.                                                           *)

\* Where the commit that record q belongs to starts.
Epoch(f, q) == 1 + Max({0} \cup {p \in 1..(q - 1) : Is(f, p, "meta")})

\* The record after a trailer must be the metadata record that the CRC covers
\* together with everything since the last commit.
Verifies(f, q) ==
  /\ Is(f, q, "meta")
  /\ f[q - 1].sum = Append(SubSeq(f, Epoch(f, q), q - 2), f[q])

Damaged(f, q) == f[q] = Torn \/ (Is(f, q - 1, "trailer") /\ ~Verifies(f, q))

\* The end of the last commit before the first damage.
Good(f) ==
  LET damage == Min({Len(f) + 1} \cup {p \in 1..Len(f) : Damaged(f, p)}) IN
  Max({0} \cup {q \in 1..(damage - 1) : Is(f, q, "meta")})

\* Trailer t, the record after it and the span its length field names agree.
SpanAgrees(f, t) ==
  LET n == Len(f[t].sum) - 1 IN
  n < t /\ f[t].sum = Append(SubSeq(f, t - n, t - 1), f[t + 1])

\* Any trailer past g is taken for an intact commit.
VerifiedBeyond_NoCrc(f, g) == \E t \in (g + 1)..Len(f) : Is(f, t, "trailer")

\* find_verified_commit: an intact commit lies somewhere past g.
VerifiedBeyond(f, g) ==
  \E t \in (g + 1)..(Len(f) - 1) : Is(f, t, "trailer") /\ SpanAgrees(f, t)

\* Truncating would destroy a later intact commit.
Refuses(f) == Good(f) < Len(f) /\ VerifiedBeyond(f, Good(f))

\* bjfile_check_tail: the last commit alone is intact.  A metadata record with no
\* trailer before it passes for one of the older file format.
TailIntact(f) ==
  /\ Is(f, Len(f), "meta")
  /\ Is(f, Len(f) - 1, "trailer") => SpanAgrees(f, Len(f) - 1)

-----------------------------------------------------------------------------
(* The host file.                                                          *)

\* What may follow the new records w when they are written over the old ones r:
\* w ends between two old records or inside one, and a torn record swallows the
\* torn start of the next.  MaxRecs bounds the stale records too.
Remains(w, r) ==
  LET rest == {SubSeq(r, j + 1, Len(r)) : j \in 1..Len(r)}
      cut  == IF w[Len(w)] = Torn THEN {} ELSE {<<Torn>> \o s : s \in rest}
  IN  {<<>>} \cup {s \in rest \cup cut : flen + Len(w) + Len(s) <= MaxRecs}

\* Writing the records w at the committed length.
Overwrites(w) ==
  LET stale == SubSeq(disk, flen + 1, Len(disk)) IN
  IF w = <<>> THEN {disk}
  ELSE {SubSeq(disk, 1, flen) \o w \o s : s \in Remains(w, stale)}

\* A write that failed after k whole records, perhaps with part of the next.
PartialWrites ==
  UNION {Overwrites(SubSeq(wb, 1, k)) \cup Overwrites(Append(SubSeq(wb, 1, k), Torn)) :
           k \in 0..(Len(wb) - 1)}

\* Everything durable is spared; what follows is cut somewhere.
CrashedDisks ==
  LET prefixes == {SubSeq(disk, 1, k) : k \in kept..Len(disk)}
      torn     == {Append(SubSeq(disk, 1, k), Torn) : k \in kept..(Len(disk) - 1)}
  IN  prefixes \cup torn

\* The host wrote back unsynced records in any order: any of them may be missing.
ReorderedDisks ==
  {[p \in 1..Len(disk) |-> IF p \in lost THEN Torn ELSE disk[p]] :
     lost \in SUBSET ((kept + 1)..Len(disk))}

-----------------------------------------------------------------------------
Init ==
  /\ disk = <<>> /\ kept = 0
  /\ open = FALSE /\ flen = 0 /\ wb = <<>>
  /\ crc = <<>> /\ crcCommitted = <<>>
  /\ reordered = FALSE

Attach(f) ==
  /\ ~open /\ open' = TRUE
  /\ disk' = f
  /\ flen' = Len(f)
  /\ kept' = Min({kept, Len(f)})
  /\ wb' = <<>> /\ crc' = <<>> /\ crcCommitted' = <<>>

\* Any file that does not end with a commit is started afresh.
OpenNew_Overwrites == ~TailIntact(disk) /\ Attach(<<>>)

\* A new file.  One that holds no commit cannot be opened: its owner deletes it
\* and starts again.
OpenNew == Good(disk) = 0 /\ ~Refuses(disk) /\ Attach(<<>>)

\* The cut is made at the start of the last good commit.
OpenScan_CutsEarly ==
  /\ Good(disk) > 0 /\ ~Refuses(disk)
  /\ Attach(SubSeq(disk, 1, Epoch(disk, Good(disk)) - 1))

\* The scan of elog_open and textlog_open: cut back to the last good commit.
OpenScan ==
  /\ Good(disk) > 0 /\ ~Refuses(disk)
  /\ Attach(SubSeq(disk, 1, Good(disk)))

\* The fast path of bpt_open and rtree_open, which scan only if it fails.
OpenTail == TailIntact(disk) /\ Attach(disk)

\* Pending bytes of one commit at a time: every structure commits, or discards,
\* right after its metadata.  (Data is appended where its commit has room as well.)
Room(n) ==
  /\ open
  /\ Len(wb) + flen + n <= MaxRecs
  /\ \A p \in 1..Len(wb) : ~Is(wb, p, "meta")

AppendData(v) ==
  /\ Room(3)
  /\ Len(SelectSeq(disk \o wb, LAMBDA r : r.kind = "data")) < MaxData
  /\ wb' = Append(wb, Data(v))
  /\ crc' = Append(crc, Data(v))
  /\ UNCHANGED <<disk, kept, open, flen, crcCommitted>>

\* Where autoflush is on, the trailer may be written a step before its metadata.  It is on
\* for the copy a compaction makes alone, which is committed or thrown away, never appended
\* to after a failure: a file that ends with that trailer is one a Commit that fails part of
\* the way leaves as well.
AppendProtected ==
  /\ Room(2)
  /\ wb' = wb \o <<Trailer(Append(crc, Meta)), Meta>>
  /\ crc' = <<>>
  /\ UNCHANGED <<disk, kept, open, flen, crcCommitted>>

\* The host took the whole buffer.
Written ==
  /\ disk' \in Overwrites(wb)
  /\ flen' = flen + Len(wb)
  /\ wb' = <<>>
  /\ crcCommitted' = crc
  /\ UNCHANGED crc

\* The committed length moves although the write failed.
WriteFailed_Advances ==
  /\ "write" \in Faults
  /\ disk' \in PartialWrites
  /\ flen' = flen + Len(wb)
  /\ UNCHANGED <<wb, crc, crcCommitted>>

WriteFailed ==
  /\ "write" \in Faults
  /\ disk' \in PartialWrites
  /\ UNCHANGED <<flen, wb, crc, crcCommitted>>

\* Also the autoflush of a bulk writer, so the buffer may hold half a commit.
Commit ==
  /\ open /\ wb # <<>>
  /\ Written \/ WriteFailed
  /\ UNCHANGED <<kept, open>>

Sync ==
  /\ open
  /\ \/ Written /\ kept' = flen'
     \/ "sync" \in Faults /\ Written /\ UNCHANGED kept
     \/ WriteFailed /\ UNCHANGED kept
  /\ UNCHANGED open

\* The CRC of the dropped records stays.
Discard_KeepsCrc ==
  /\ open
  /\ wb' = <<>>
  /\ UNCHANGED <<disk, kept, open, flen, crc, crcCommitted>>

Discard ==
  /\ open
  /\ wb' = <<>>
  /\ crc' = crcCommitted
  /\ UNCHANGED <<disk, kept, open, flen, crcCommitted>>

\* Detached by a power cut, or by bjfile_dispose, which writes nothing.
Detach ==
  /\ open
  /\ open' = FALSE /\ flen' = 0 /\ wb' = <<>>
  /\ crc' = <<>> /\ crcCommitted' = <<>>
  /\ UNCHANGED kept

Crash == Detach /\ disk' \in CrashedDisks

CrashReordered ==
  /\ "reorder" \in Faults
  /\ Detach
  /\ disk' \in ReorderedDisks
  /\ reordered' = TRUE

Next ==
  \/ /\ \/ OpenNew \/ OpenScan \/ OpenTail
        \/ \E v \in Payload : AppendData(v)
        \/ AppendProtected
        \/ Commit \/ Sync \/ Discard
        \/ Crash
     /\ UNCHANGED reordered
  \/ CrashReordered

Spec == Init /\ [][Next]_vars

-----------------------------------------------------------------------------
(* Correctness.                                                            *)

\* The file a handle stands on, or the one the next open will see.
Committed == IF open THEN SubSeq(disk, 1, flen) ELSE disk

\* The fields have their types and the durable records are inside the file.
TypeOK ==
  /\ \A p \in 1..Len(disk) : disk[p].kind \in {"data", "meta", "trailer", "torn"}
  /\ kept \in 0..Len(disk)
  /\ open \in BOOLEAN
  /\ flen \in 0..Len(disk)
  /\ \A p \in 1..Len(wb) : wb[p].kind \in {"data", "meta", "trailer"}

\* The bytes below the committed length are never damaged, whatever writes failed
\* and whatever they left behind past it: each commit there verifies.  (Where the order of
\* writes is not kept, the fast path may adopt damage before the last commit.)
CommittedIntact == open /\ ~reordered => \A q \in 1..flen : ~Damaged(disk, q)

\* The running CRC covers exactly the records since the last commit, across
\* discards and flushes of half a commit.
CrcCoversCommit ==
  open => LET all == SubSeq(disk, 1, flen) \o wb IN
          crc = SubSeq(all, Epoch(all, Len(all) + 1), Len(all))

\* What a handle stands on verifies, and so will what it commits next.
HandleVerifies == CommittedIntact /\ CrcCoversCommit

\* No crash, failed write or recovery changes the records up to the end of the
\* last intact commit that was synced, in whatever order the host wrote them back.
LastDurable ==
  Max({0} \cup {q \in 2..kept : Is(disk, q - 1, "trailer") /\ SpanAgrees(disk, q - 1)})

DurableNeverLost ==
  [][ /\ Len(disk') >= LastDurable
      /\ SubSeq(disk', 1, LastDurable) = SubSeq(disk, 1, LastDurable) ]_vars

\* A torn tail is recovered by truncation, never mistaken for mid-file
\* corruption: open does not refuse a file that only failed writes and crashes that
\* keep the order of writes have touched.
NeverRefused == reordered \/ ~Refuses(disk)

\* On such a host the fast path of the trees adopts nothing the full scan would not.
TailAgreesWithScan == ~reordered /\ TailIntact(disk) => Good(disk) = Len(disk)

\* Both ways of opening come to the last whole commit.
OpensAtCommit == NeverRefused /\ TailAgreesWithScan

\* What the file promises its structures where the order of writes is kept: CommitFile,
\* with an unfinished commit invisible and the trailer a record of its batch, which the
\* scans of the structures skip.
Visible(f) == SubSeq(f, 1, Good(f))

Batches ==
  {b \o <<Trailer(Append(b, Meta)), Meta>> :
     b \in BoundedSeq({Data(v) : v \in Payload}, MaxRecs)}

CF == INSTANCE CommitFile WITH
  file <- Visible(Committed),
  safe <- Good(SubSeq(disk, 1, kept))

CommitFileStep == reordered' \/ UNCHANGED CF!vars \/ CF!Next
CommitFileSpec == CF!Init /\ [][CommitFileStep]_vars
=============================================================================
