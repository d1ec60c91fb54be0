SPECIFICATION Spec
CONSTANTS
  Roles = {r1, r2}
  MaxGen = 2
  MaxIndex = 2
  Hosts = {{"flush"}}
  Absent = Absent
  Empty = Empty
  Garbage = Garbage
SYMMETRY RoleSymmetry
INVARIANTS
  AdoptedVerifies
