SPECIFICATION Spec
CONSTANTS
  Patience = {"once"}
  p1 = p1
  p2 = p2
  r1 = r1
  w1 = w1
  w2 = w2
  NoProc = NoProc
  Proc = {p1, p2}
  Lacking = {}
  Racing = {}
  Queried = {}
  Handle = {r1, w1, w2}
  Writers = {w1, w2}
  ReqLimit = 2
  Owner <- MCOwner
  Mode <- MCMode
INVARIANTS TypeOK HeldIsReal WriterIsCovered FlushExclusion ListFits
\* Every process may have died.
CHECK_DEADLOCK FALSE
