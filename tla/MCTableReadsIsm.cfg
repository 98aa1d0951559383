SPECIFICATION Spec
CONSTANTS
  Cols <- MCCols
  Manager <- MCManager
  Shape <- MCShape
  Type <- MCType
  Free <- MCFree
  FreeShape <- MCFreeShape
  Unset <- MCUnset
  NRows = 4
  ByteBits = 4
  Word = 8
  RowLists <- MCRowLists
  MaxViews = 2
  Requests <- MCRequests
  Patched = {"time"}
  PatchRows <- MCPatchRows
  MaxPatches = 1
INVARIANT CellsAreWhole
