SPECIFICATION ProgramIndexSpec
CONSTANTS
  alice = alice
  bob = bob
  usd = usd
  NoAccount = NoAccount
  Wallets <- MCWallets
  Mints <- MCMints
  TransferLists <- MCTransferLists
  lumen = lumen
  tide = tide
  bad = bad
  Handles <- MCHandles
  ValidHandles <- MCValidHandles
  Texts = {"old"}
  FittingTexts = {"old"}
  Amounts = {0, 5}
  Period = 1
  Grace = 2
  MaxPeriods = 1
  MaxU32 = 2
  MaxU64 = 2
  MaxTime = 4
  MaxSlot = 1
  MaxLog = 4
  MaxRolledBack = 1
  MonthLength = 2
  SeriesMonths = 2
  PageLimits = {1, 2}
  Rank <- MCRank
  Day = 2
  SoonDays = 1
INVARIANTS
  HandlesAndCreatorsAgree
  IndexIsTheChain
  CreatorPageIsTrue
  SupporterPageIsTrue
  SeriesMissesNoActiveMonth
  ReadsAreTrue
PROPERTY SpeaksForItsCaller
SYMMETRY HandleSymmetry
CHECK_DEADLOCK FALSE
