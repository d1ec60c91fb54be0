SPECIFICATION Spec
CONSTANTS
  None = None
  MaxEntries = 3
  Place <- MCPlace
  Radius <- MCRadius
  Uses <- MCUses
INVARIANTS
  TreeVerifies
  NothingLost
  SearchesAgree
  RadiusFinds
  NearestAscends
