CONSTANTS
  plain = plain  old = old  hidden = hidden  other = other
  t1 = t1  t2 = t2
  Types = {t1, t2}
  TypeOf <- TypeOfKey
  Keys = {plain, old, hidden, other}
  Queried = {plain, old, hidden}
  Wanted = {plain, old}
  Outdated = {old}
  Requests <- InstantFollow
  Batches <- OldBatches
  ClientCloses = FALSE
  Refreshes = FALSE
  MaxBufferSize = 3
  MaxSer = 2
  MaxGap = 0
  MaxListenerFaults = 0
  MaxQueryFailures = 0
  MaxTransformFailures = 1
SPECIFICATION Spec
INVARIANT NoGap
