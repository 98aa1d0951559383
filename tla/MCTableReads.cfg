SPECIFICATION Spec
CONSTANTS
  Cols <- MCCols
  Manager <- MCManager
  Shape <- MCShape
  Type <- MCType
  Free <- MCFree
  FreeShape <- MCFreeShape
  Unset <- MCUnset
  NRows = 4
  ByteBits = 4
  Word = 8
  RowLists <- MCRowLists
  MaxViews = 2
  Requests <- MCRequests
  Patched = {"uvw", "flag", "cell"}
  PatchRows <- MCPatchRows
  MaxPatches = 2
INVARIANTS
  AnswersAreTheRows
  CellsAreWhole
  SlicesAreExact
  ErrorsNameTheRow
