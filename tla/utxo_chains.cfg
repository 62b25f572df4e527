\* Two processes pay from one address of each chain.
SPECIFICATION Spec
CONSTANTS
  Handle = {"h1", "h2"}
  Payment = {"p", "q"}
  AmountOf <- MCAmountOf
  Coins <- MCCoins
  Deposits <- LaterDeposits
  CeilingOn <- MCCeilingOn
  Params <- MCParams
  Estimate = 6
  Rate = 1
  Cap = 4
  Backdate = 1
  MaxEvents = 2
  Batch = 2
  MaxIdGiven = TRUE
  MaxSends = 3
  MaxSlot = 2
  Slack = 1
INVARIANTS
  PaidOnce
  RecordedBeforeBroadcast
  NothingLost
  ShortIsShort
  PaysItsOwnFee
  CacheReadsBack
CHECK_DEADLOCK FALSE
