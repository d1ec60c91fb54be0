SPECIFICATION Spec
CONSTANTS
  Node = {n1, n2}
  NoVote = NoVote
  Down = Down
  Absent = Absent
  Value = {v1}
  Bases <- MCFreshOnly
  MaxTerm = 2
  MaxIndex = 1
  MaxRecs = 5
  Faults <- MCAllFaults
SYMMETRY NodeSymmetry
INVARIANTS
  VotesKept
PROPERTIES
  RaftLogSpec
