SPECIFICATION Spec
CONSTANTS
  ca = ca
  cb = cb
  NL = NL
  NoText = NoText
  DeltaK = 2
  Slot <- MCSlot
  Context = 1
  DiffsPerSnapshot = 1
  Texts <- MCTexts
  OlderTexts <- MCOlder
  TileSizes = {2, 3, 4}
  MaxOpenTiles = 2
  MaxVersions = 4
  MaxTiles = 3
  Faults = {"write", "power"}
INVARIANTS
  TypeOK
  VersionsReadBack
  LogsAgree
  TilesInOrder
  DiffsExact
PROPERTIES
  HistorySpec
  ReadsGetTheirTile
CHECK_DEADLOCK FALSE
