CONSTANTS
  one = one  two = two  Nobody = Nobody  Gone = Gone
  Instances = {one, two}
  Facts <- SomeFacts
  MaxSerial = 5
  MaxBatch = 2
  MaxFaults = 1
  MaxCloses = 1
SPECIFICATION FairSpec
INVARIANTS TypeOK StateMatchesPosition
PROPERTIES EveryFactIsApplied OnlyForward
CHECK_DEADLOCK FALSE
