CONSTANTS
  f1 = f1  f2 = f2
  acct = acct  other = other
  alice = alice  bob = bob
  Clients = {alice, bob}
  FactIds <- Ids
  Keys = {acct, other}
  Batches <- OverlapBatches
  Scope <- OneScope
  Retry <- Attempts
  FastStateToken <- OnlyAlice
  IgnoreDuplicateFacts <- OnlyBob
  MaxCalls = 6
  MaxRetries = 1
  MaxFaults = 1
SPECIFICATION FairSpec
INVARIANTS TypeOK DecidedOnCurrentState PublishedIsLogged
PROPERTIES AppendsInOrder EveryClientReturns
