CONSTANTS
  i1 = i1
  i2 = i2
  i3 = i3
  Ids = {i1, i2, i3}
  MaxChanges = 1
  MaxBreaks = 0
  MaxFailures = 0
SPECIFICATION Spec
INVARIANT ChangesTakeEffect
CHECK_DEADLOCK FALSE
