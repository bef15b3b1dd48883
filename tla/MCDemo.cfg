\* A demo run with one fault of the api, the rpc or the network.
SPECIFICATION FairSpec
CONSTANTS
  Supporters = 3
  Repeats = 1
  w1 = w1
  w2 = w2
  Workers <- MCWorkers
  SweepBatch = 2
  FaucetAttempts = 2
  MaxFaults = 1
INVARIANTS
  ResultsAreTrue
  ReceivedIsTheSum
  SolComesBack
PROPERTY RunEnds
CHECK_DEADLOCK FALSE
