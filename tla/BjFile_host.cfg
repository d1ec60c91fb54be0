SPECIFICATION Spec
CONSTANTS
  Payload = {a}
  MaxRecs = 6
  MaxData = 2
  Faults = {"write", "sync", "reorder"}
INVARIANTS
  TypeOK
  HandleVerifies
  OpensAtCommit
PROPERTIES
  CommitFileSpec
  DurableNeverLost
CHECK_DEADLOCK FALSE
