CONSTANTS
  Facts = 1
  Stored = 1
  Attempts = 2
  MaxFailures = 2
  MaxHandshakeFailures = 1
SPECIFICATION Spec
INVARIANT NeverAbandoned
CHECK_DEADLOCK FALSE
