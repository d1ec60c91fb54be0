-------------------------------- MODULE Replay --------------------------------
(***************************************************************************)
(* What elog_open's replay of the entry records (entrylog.c) computes, said *)
(* without its loop: ReplayLoop checks that the loop computes the same.     *)
(* f is a sequence of records in file order, b the base the log starts at.  *)
(***************************************************************************)
EXTENDS Naturals, Sequences

MaxOf(S) == CHOOSE x \in S : \A y \in S : y <= x

EntryPos(f) == {p \in 1..Len(f) : f[p].kind = "entry"}

\* The index of the last entry record of f, the base when it has none.
RawLast(f, b) == IF EntryPos(f) = {} THEN b.index ELSE f[MaxOf(EntryPos(f))].index

\* The record left in the slot of index i: the last one that has this index,
\* since a later record supersedes every slot from its own index up.
SlotPos(f, i) == MaxOf({p \in EntryPos(f) : f[p].index = i})

\* No entry is at or below the base and none skips an index.
Replays(f, b) ==
  \A p \in EntryPos(f) :
    /\ f[p].index > b.index
    /\ f[p].index <= RawLast(SubSeq(f, 1, p - 1), b) + 1

\* The offset table replay builds.
ReplayTable(f, b) ==
  [j \in 1..(RawLast(f, b) - b.index) |->
     LET p == SlotPos(f, b.index + j) IN [off |-> p, term |-> f[p].term]]
=============================================================================
