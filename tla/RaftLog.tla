-------------------------------- MODULE RaftLog --------------------------------
(***************************************************************************)
(* What entrylog.h promises a Raft node, with no file in sight: a log of   *)
(* entries above a base, the hard state (current term and vote), and an    *)
(* advisory commit index.  A call that returns BJ_OK at a durability point *)
(* leaves exactly one state a restart can come back to; a call that fails  *)
(* gives the caller its last committed state back, and leaves open whether *)
(* the failed commit survives.                                             *)
(***************************************************************************)
EXTENDS Naturals, Sequences

CONSTANTS
  Node,               \* the ids a vote can name
  NoVote,             \* EL_VOTED_NONE
  Value,              \* entry payloads
  Terms,              \* the terms the node goes through
  Bases,              \* the snapshot boundaries a new log may start from
  MaxIndex,           \* bound: the highest entry index
  Down,               \* in place of a state: no handle is open
  Absent              \* in place of a state: no log is left

VARIABLES
  live,               \* the state the handle answers from
  saved,              \* the state a failed call falls back to
  stable              \* the states a restart may come back to

vars == <<live, saved, stable>>

Fresh(b) ==
  [base |-> b, log |-> <<>>, term |-> b.term, vote |-> NoVote, commit |-> b.index]

LastIndex(s) == s.base.index + Len(s.log)
TermAt(s, i) == IF i = s.base.index THEN s.base.term
                                    ELSE s.log[i - s.base.index].term
LastTerm(s)  == TermAt(s, LastIndex(s))

-----------------------------------------------------------------------------
Init == live = Down /\ saved = Down /\ stable = {Absent}

Create(b) ==
  /\ live = Down
  /\ stable = {Absent}
  /\ live' = Fresh(b)
  /\ saved' = Fresh(b)
  /\ stable' = {Absent, Fresh(b)}

\* A durability point for state s: acknowledged, or failed and undone.
Persist(s) ==
  \/ live' = s /\ saved' = s /\ stable' = {s}
  \/ /\ live' = saved
     /\ saved' = saved
     /\ stable' \in {stable, stable \cup {s}}

AppendEntry(t, v) ==
  /\ live # Down
  /\ LastIndex(live) < MaxIndex
  /\ t >= LastTerm(live) /\ t <= live.term
  /\ live' = [live EXCEPT !.log = @ \o <<[term |-> t, val |-> v]>>]
  /\ UNCHANGED <<saved, stable>>

\* A failed append gives up everything not yet synced.
LoseBuffered == live # Down /\ live' = saved /\ UNCHANGED <<saved, stable>>

Sync == live # Down /\ Persist(live)

\* Terms never fall, and a term has at most one vote.
SetHardState(t, v) ==
  /\ live # Down
  /\ \/ /\ t = live.term
        /\ v = NoVote
        /\ Persist(live)
     \/ /\ t = live.term
        /\ v # NoVote
        /\ live.vote \in {NoVote, v}
        /\ Persist([live EXCEPT !.vote = v])
     \/ /\ t > live.term
        /\ Persist([live EXCEPT !.term = t, !.vote = v])

SetCommitIndex(i) ==
  /\ live # Down
  /\ i \in live.commit..LastIndex(live)
  /\ live' = [live EXCEPT !.commit = i]
  /\ UNCHANGED <<saved, stable>>

\* Only entries above the commit index can be cut.
TruncateFrom(i) ==
  /\ live # Down
  /\ i \in (live.commit + 1)..LastIndex(live)
  /\ Persist([live EXCEPT !.log = SubSeq(@, 1, i - 1 - live.base.index)])

\* The entries up to i move into a snapshot; everything else carries over.
Rebase(i) ==
  /\ live # Down
  /\ i \in live.base.index..LastIndex(live)
  /\ LET s == [live EXCEPT
                 !.base   = [index |-> i, term |-> TermAt(live, i)],
                 !.log    = SubSeq(@, i - live.base.index + 1, Len(@)),
                 !.commit = IF @ < i THEN i ELSE @]
     IN  live' = s /\ saved' = s /\ stable' = {s}

\* Power cut, process exit or close.
Crash ==
  /\ live' = Down /\ saved' = Down
  /\ stable' # {} /\ stable' \subseteq stable

Open ==
  /\ live = Down
  /\ \E s \in stable \ {Absent} : live' = s /\ saved' = s
  /\ UNCHANGED stable

Next ==
  \/ \E b \in Bases : Create(b)
  \/ \E t \in Terms, v \in Value : AppendEntry(t, v)
  \/ LoseBuffered
  \/ Sync
  \/ \E t \in Terms, v \in Node \cup {NoVote} : SetHardState(t, v)
  \/ \E i \in 0..MaxIndex : SetCommitIndex(i) \/ TruncateFrom(i) \/ Rebase(i)
  \/ Crash
  \/ Open

Spec == Init /\ [][Next]_vars
=============================================================================
