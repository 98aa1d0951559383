SPECIFICATION Spec
CONSTANTS
  Err = Err
  None = None
  Alphabet <- MCAlphabet
  LowerOf <- MCLowerOf
  Dirs = {"p", "q"}
  StartTables <- MCStart
  Statements <- MCStatements
  Probes <- MCProbes
  Queries <- MCQueries
  Listings <- MCListings
  PutCells <- MCPuts
  Careful = TRUE
  MaxSteps = 4
INVARIANTS
  ParsesBack
  FailedLeavesAlone
  EditsAreExact
  RowsAreOrdered
  GroupsPartition
  PatternsAreExact
  ViewShowsRows
  BackingIsCurrent
  PutsReachDisk
CHECK_DEADLOCK FALSE
