CONSTANTS
  i1 = i1
  i2 = i2
  i3 = i3
  Ids = {i1, i2}
  MaxChanges = 3
  MaxBreaks = 1
  MaxFailures = 1
SPECIFICATION FairSpec
INVARIANTS TypeOK UpdateTakesEffect
PROPERTIES NoGapInUpdate EventuallyInEffect
CHECK_DEADLOCK FALSE
