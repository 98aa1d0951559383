SPECIFICATION Spec
CONSTANTS
  Writers = {w1, w2}
  Readers = {r1}
  Cols = {"a", "b"}
  FirstCols <- MCFirstCols
  Adders = {w2}
  Careful = {w1}
  Vals = {1, 2}
  Patched = {"a"}
  None = None
  MaxRows = 2
  MaxSteps = 9
INVARIANTS
  
  RowsSurvive
  LockedSeesRows
CHECK_DEADLOCK FALSE
