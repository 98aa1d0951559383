CONSTANTS
  SsmKinds <- MCSsmKinds
  SsmRpb = 2
  IdxCap = 5
  StrCap = 4
  Inline = 1
  Reserve = 1
  IsmCols = 2
  IsmSize = 15
  TsmRoot = "TiledShapeStMan"
  Byte = 2
  TileBytes = 4
  TsmShape <- MCTsmShape
  TsmRequest <- MCTsmRequest
  CellValues <- MCCellValues
  Layouts <- MCLayouts
  MaxRows = 4
  MaxEdits = 3
SPECIFICATION Spec
INVARIANTS StoredIsWritten NeverAnotherValue GrowthKeepsReaders HandleNeverMisreads
CHECK_DEADLOCK FALSE
