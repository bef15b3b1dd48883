\* Three requests, one hit per window of two, a blockhash and a wait of one.
SPECIFICATION FairSpec
CONSTANTS
  Requests <- MCRequests
  Client <- MCClient
  Mode <- MCMode
  Batch <- MCBatch
  Limit = 1
  WindowMs = 2
  SweepEvery = 2
  FaucetLimit = 1
  FaucetWindow = 2
  Timeout = 1
  Lifetime = 1
  LastArrival = 2
  MaxClock = 3
INVARIANTS
  LimitInEveryWindow
  RetryAfterIsEnough
  BatchLandsInOrder
PROPERTY EveryRequestIsAnswered
CHECK_DEADLOCK FALSE
