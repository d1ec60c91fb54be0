------------------------------- MODULE ReplayLoop -------------------------------
(***************************************************************************)
(* The replay loop of elog_open (entrylog.c), against the loop-free         *)
(* definitions of Replay that EntryLog uses.                               *)
(***************************************************************************)
EXTENDS EntryLog, SequencesExt

Start == [failed |-> FALSE, n |-> 0, table |-> <<>>]

\* At or below the tile base, or a gap in the sequence.
Misplaced(st, r, b) == r.index <= b.index \/ r.index - b.index - 1 > st.n

\* A faulty Place: the entries above the superseded one stay live.
Place_KeepsSuffix(st, r, off, pos) ==
  [st EXCEPT !.n = IF pos < @ THEN @ ELSE pos + 1,
             !.table = SubSeq(@, 1, pos) \o <<[off |-> off, term |-> r.term]>>
                         \o SubSeq(@, pos + 2, st.n)]

\* Supersede from the record's own index on.
Place(st, r, off, pos) ==
  [st EXCEPT !.n = pos + 1,
             !.table = Append(SubSeq(@, 1, pos), [off |-> off, term |-> r.term])]

\* One record of the file: what follows the last good commit, and metadata, is skipped.
ReplayStep(st, f, off, good, b) ==
  IF st.failed \/ off >= good \/ f[off].kind # "entry" THEN st
  ELSE IF Misplaced(st, f[off], b) THEN [st EXCEPT !.failed = TRUE]
  ELSE Place(st, f[off], off, f[off].index - b.index - 1)

\* The whole loop, from no slots to the state after the last record.
Replayed(f, good, b) ==
  LET after[off \in 0..Len(f)] ==
        IF off = 0 THEN Start ELSE ReplayStep(after[off - 1], f, off, good, b)
  IN  after[Len(f)]

-----------------------------------------------------------------------------
\* The files looked at: those a log is about to be opened on, and while there is none
\* every sequence of entries there could be.
Files ==
  CASE up                 -> {}
    [] ~up /\ file # <<>> -> {file}
    [] ~up /\ file = <<>> -> BoundedSeq([kind : {"entry"}, index : Indexes, term : Terms], MaxRecs - 3)

\* Whatever was rolled back and appended again: the loop fails exactly on the files
\* Replays rejects, and otherwise ends with the table ReplayTable describes, one slot
\* per index up to that of the last record, each holding the last record of its index.
LoopComputesTable ==
  \A f \in Files : \A b \in Bases, good \in {Len(f), Len(f) + 1} :
    LET end  == Replayed(f, good, b)
        part == SubSeq(f, 1, good - 1)
    IN  IF end.failed THEN ~Replays(part, b)
        ELSE Replays(part, b) /\ end.table = ReplayTable(part, b)
=============================================================================
