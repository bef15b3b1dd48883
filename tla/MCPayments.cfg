SPECIFICATION Spec
CONSTANTS
  LoRange = 4
  Search = 16
  Fan = fan
  Patron = patron
  Auditor = auditor
  NoKeys = nokeys
  SessionWallets = {fan}
  MaxPrompts = 3
  Amounts <- MCAmounts
  OtherAmounts = {7}
  MaxCredits = 2
  MaxPayments = 2
  MaxUses = 1
INVARIANTS
  AmountsAreWhatMoved
  DisclosureIsTrue
  DisclosureStands
  BalancesAddUp
  ShownKeysAreCurrent
  OnePromptAtATime
CHECK_DEADLOCK FALSE
