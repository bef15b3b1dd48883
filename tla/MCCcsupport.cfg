\* Terms: one creator, up to two supporters, time enough to lapse and to renew.
SPECIFICATION Spec
CONSTANTS
  alice = alice
  bob = bob
  usd = usd
  NoAccount = NoAccount
  Wallets <- MCWallets
  Mints <- MCMints
  TransferLists <- MCTransferLists
  Handles = {"lumen", "Bad!"}
  ValidHandles = {"lumen"}
  Texts = {"short", "too long"}
  FittingTexts = {"short"}
  Amounts = {0}
  Period = 1
  Grace = 1
  MaxPeriods = 2
  MaxU32 = 3
  MaxU64 = 3
  MaxTime = 4
  MaxSlot = 2
INVARIANTS
  TypeOK
  PledgesTotalCountsPledges
  PaidTimeIsKept
  UnbrokenTermIsExact
  NoTransferNoRecord
PROPERTY NeverTakesBack
CHECK_DEADLOCK FALSE
