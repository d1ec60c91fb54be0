SPECIFICATION Spec
CONSTANTS
  Roles = {r1, r2}
  MaxGen = 2
  MaxIndex = 1
  Hosts = {{"undelete"}, {"flush"}, {"locked"}, {"kill"}}
  Absent = Absent
  Empty = Empty
  Garbage = Garbage
SYMMETRY RoleSymmetry
INVARIANTS
  TypeOK
  VerifiesUnlessThrown
  CommittedSurvives
  FreshGeneration
  RecoverableUnlessKilled
