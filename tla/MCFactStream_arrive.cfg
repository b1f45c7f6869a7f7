CONSTANTS
  plain = plain  old = old  hidden = hidden  other = other
  t1 = t1  t2 = t2
  Types = {t1, t2}
  TypeOf <- TypeOfKey
  Keys = {plain, old, hidden, other}
  Queried = {plain, old, hidden}
  Wanted = {plain, old}
  Outdated = {old}
  Requests <- FollowRequests
  Batches <- PlainBatches
  ClientCloses = FALSE
  Refreshes = TRUE
  MaxBufferSize = 3
  MaxSer = 2
  MaxGap = 1
  MaxListenerFaults = 1
  MaxQueryFailures = 0
  MaxTransformFailures = 0
SPECIFICATION FairSpec
PROPERTIES EveryFactArrives DeliversInOrder
