------------------------------ MODULE MCEntryLog ------------------------------
(* Instances of EntryLog for TLC.                                          *)
EXTENDS EntryLogInv, ReplayLoop, TLC

\* A fresh log, and one that continues after a snapshot of entry 1.
MCBases == {[index |-> 0, term |-> 0], [index |-> 1, term |-> 1]}
MCFreshOnly == {[index |-> 0, term |-> 0]}

\* No candidate is treated unlike another.
NodeSymmetry == Permutations(Node)

MCAllFaults == {"encode", "write", "sync"}
=============================================================================
