SPECIFICATION Spec
CONSTANTS
  a = a
  b = b
  dflt = dflt
  v = v
  lost = lost
  Damaged = Damaged
  Col = {a, b}
  Val = {dflt, v, lost}
  Default = dflt
  Lost = lost
  Split = {a}
  FirstCols = {a}
  MaxRows = 2
  Faults = {"grow", "swap"}
INVARIANT Readable
\* A rewrite or a growth cut short ends the session.
CHECK_DEADLOCK FALSE
