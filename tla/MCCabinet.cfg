\* Two workers, either of which may fail; the keys are forgotten and derived again.
SPECIFICATION FairSpec
CONSTANTS
  Sigs = {"a", "b", "c"}
  Key <- MCKey
  PageLimit = 1
  Size = 2
  MaxArrivals = 1
  MaxPools = 2
INVARIANTS
  JobsReachTheirWorker
  OneWorkerPerJob
  NoAmountIsMissed
PROPERTIES
  WalkIsWhole
  EveryJobSettles
CHECK_DEADLOCK FALSE
