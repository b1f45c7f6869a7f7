CONSTANTS
  Sizes = {3, 6, 9}
  MaxInbound = 10
  RetryCount = 2
  MaxFacts = 3
SPECIFICATION FairSpec
CHECK_DEADLOCK FALSE
INVARIANTS TypeOK SentInOrder MarksFollowFacts MessagesFit
PROPERTIES FailureIsTold ClosedComesToRest
