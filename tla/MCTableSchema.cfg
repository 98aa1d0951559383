SPECIFICATION Spec
CONSTANTS
  Whole <- MCWhole
  Numeral <- MCNumeral
  Lower <- MCLower
  Numbers <- MCNumbers
  WordMax = 2
  Schemas <- MCSchemas
  Foreign <- MCForeign
  Keywords <- MCKeywords
  ColKeywords <- MCColKeywords
  Additions <- MCAdditions
  CloneNames <- MCCloneNames
  Conversions <- MCConversions
  MaxRows = 3
  MaxColumns = 4
  MaxSteps = 3
INVARIANTS
  SchemaReadsBack
  BindingsHold
  CountsAgree
  KeyedTogether
  ClonesAreAlike
CHECK_DEADLOCK FALSE
