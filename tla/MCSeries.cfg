\* The monthly series against the months a supporter was active in.
SPECIFICATION ProgramIndexSpec
CONSTANTS
  alice = alice
  bob = bob
  usd = usd
  NoAccount = NoAccount
  Wallets <- MCWallets
  Mints <- MCMints
  TransferLists <- MCTransferLists
  lumen = lumen
  tide = tide
  bad = bad
  Handles <- MCHandles
  ValidHandles <- MCValidHandles
  Texts = {"old"}
  FittingTexts = {"old"}
  Amounts = {0}
  Period = 2
  Grace = 1
  MaxPeriods = 1
  MaxU32 = 2
  MaxU64 = 2
  MaxTime = 6
  MaxSlot = 1
  MaxLog = 3
  MaxRolledBack = 1
  MonthLength = 2
  SeriesMonths = 3
  PageLimits = {1, 2}
  Rank <- MCRank
  Day = 2
  SoonDays = 1
INVARIANT SeriesCountsOnlyActiveMonths
CHECK_DEADLOCK FALSE
