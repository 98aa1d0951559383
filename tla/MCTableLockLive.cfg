SPECIFICATION FairSpec
CONSTANTS
  Patience = {"some"}
  p1 = p1
  p2 = p2
  r1 = r1
  w2 = w2
  NoProc = NoProc
  Proc = {p1, p2}
  Lacking = {}
  Racing = {}
  Queried = {r1}
  Handle = {r1, w2}
  Writers = {w2}
  ReqLimit = 1
  Owner <- MCOwner
  Mode <- MCMode
PROPERTY ListedIsYieldedTo
\* Every process may have died.
CHECK_DEADLOCK FALSE
