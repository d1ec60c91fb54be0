SPECIFICATION Spec
CONSTANTS
  d1 = d1
  d2 = d2
  t1 = t1
  t2 = t2
  NoTerm = NoTerm
  Docs = {d1, d2}
  Terms = {t1, t2}
  Texts <- MCTexts
  Legacy <- MCLegacy
  BlockDocs = 1
  MaxOps = 1
  Faults = {}
INVARIANT CrashRolledBack
CHECK_DEADLOCK FALSE
