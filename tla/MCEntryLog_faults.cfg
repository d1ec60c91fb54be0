SPECIFICATION Spec
CONSTANTS
  Node = {}
  NoVote = NoVote
  Down = Down
  Absent = Absent
  Value = {v1}
  Bases <- MCBases
  MaxTerm = 1
  MaxIndex = 2
  MaxRecs = 7
  Faults <- MCAllFaults
INVARIANTS
  TypeOK
  TableInv
  Reopenable
  Verifies
  LoopComputesTable
PROPERTIES
  CommittedNeverLost
