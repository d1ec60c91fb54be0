------------------------------ MODULE MCTextIndex ------------------------------
(* Instances of TextIndex for TLC.                                         *)
EXTENDS TextIndex

CONSTANTS d1, d2, t1, t2

\* A document with one term, and one with both, the first of them twice.
MCTexts  == {t1 :> 1, (t1 :> 2) @@ (t2 :> 1)}
MCLegacy == d2 :> ((t1 :> 1) @@ (t2 :> 1))
=============================================================================
