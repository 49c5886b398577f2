CONSTANTS
  i1 = i1
  i2 = i2
  i3 = i3
  Ids = {i1, i2, i3}
  Unparsable = {i3}
  Layout <- MCLayout
  ConfigColumns <- MCConfigColumns
  Added = "c"
  Toasted <- MCToasted
  None = None
  Null = Null
  Unchanged = Unchanged
  MaxRows = 1
  MaxWrites = 2
  MaxTxnLen = 2
SPECIFICATION Spec
SYMMETRY MCSymmetry
CHECK_DEADLOCK FALSE
INVARIANTS OwnColumns SettledMirrors
