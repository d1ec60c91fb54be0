----------------------------- MODULE MCTiledTextLog -----------------------------
(* Instances of TiledTextLog for TLC.                                      *)
EXTENDS TiledTextLogInv

CONSTANTS ca, cb

MCSlot(g) == g[1]     \* grams that begin alike collide

MCTexts == {<<ca, cb, ca, cb>>, <<cb, cb, ca, cb, NL>>}

\* Texts that touch the ends of a patch: no newline, only newlines, changes far apart.
MCFew == {<<>>, <<NL, ca>>, <<ca, NL>>, <<ca, NL, NL, NL, NL, NL, cb>>}

\* Every pair of a few texts, and the others in older files of three versions and of two.
MCOlder ==
  {<<x, y>> : x \in MCFew, y \in MCFew}
  \cup {<<<<NL>>, <<cb, NL, ca, NL>>, <<cb, NL, NL, NL, NL, NL, ca, NL>>>>,
        <<<<ca>>, <<NL, ca, NL, NL, NL, NL>>>>}
=============================================================================
