------------------------------ MODULE MCBPlusTree ------------------------------
(* Instances of BPlusTree for TLC.                                         *)
EXTENDS BPlusTree

CONSTANTS inner, outer

\* Seven keys with small values make trees of three levels, with nobody reading them but
\* the handle; three keys with values outside the leaves are read by a snapshot and a
\* cursor while the handle goes on; two keys follow a replicated log.
ShapesAndReaders ==
  {[keys |-> 1..7, values |-> {inner}, applied |-> 0, read |-> FALSE],
   [keys |-> 1..3, values |-> {outer}, applied |-> 0, read |-> TRUE],
   [keys |-> 1..2, values |-> {inner}, applied |-> 1, read |-> TRUE]}
=============================================================================
