SPECIFICATION Spec
CONSTANTS
  inner = inner
  outer = outer
  Order = 3
  Large = {outer}
  MaxKey = 7
  Value = {inner, outer}
  MaxApplied = 1
  Snaps = {p}
  Cursors = {c}
  None = None
  Uses <- ShapesAndReaders
  MaxCommits = 2
INVARIANTS
  TypeOK
  InShape
  ReadsAgree
  AppliedAscends
PROPERTIES
  VersionedMapSpec
