CONSTANTS
  Facts = 2
  Stored = 2
  Attempts = 2
  MaxFailures = 2
  MaxHandshakeFailures = 1
SPECIFICATION FairSpec
INVARIANTS TypeOK ExactlyOnce AttemptsWithinLimit ReturnMeansDelivered
PROPERTIES ClosedReleasesWaiter KeepsContract
CHECK_DEADLOCK FALSE
