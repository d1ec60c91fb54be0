------------------------------ MODULE TextHistory ------------------------------
(***************************************************************************)
(* What a tiled text log promises: versions that never change, and a power   *)
(* cut that takes none of those that are safe.                              *)
(***************************************************************************)
EXTENDS Naturals, Functions

CONSTANTS AllTexts, MaxVersions

VARIABLES
  texts,    \* the text of each version
  safe      \* the versions on storage

vars == <<texts, safe>>

Init == safe = DOMAIN texts

\* addVersion: a number above all others.
Add == \E v \in 1..MaxVersions, x \in AllTexts :
         /\ \A u \in DOMAIN texts : u < v
         /\ texts' = [u \in DOMAIN texts \cup {v} |-> IF u = v THEN x ELSE texts[u]]
         /\ UNCHANGED safe

\* flush, or the closing of a tile.
Sync == /\ safe \subseteq safe' /\ safe' \subseteq DOMAIN texts
        /\ UNCHANGED texts

PowerCut == \E kept \in SUBSET DOMAIN texts :
              /\ safe \subseteq kept
              /\ texts' = Restrict(texts, kept) /\ safe' = kept

Next == Add \/ Sync \/ PowerCut

Spec == Init /\ [][Next]_vars
=============================================================================
