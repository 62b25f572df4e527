\* The window, its worker and the library, with panics and late answers.
SPECIFICATION FairSpec
CONSTANTS
  a = a
  b = b
  dev = dev
  test = test
  usdc = usdc
  Account = {a, b}
  Network = {dev, test}
  Token = {usdc}
  Home <- MCHome
  Movable = {usdc}
  Automatic = {dev}
  Shop = Shop
  Coin = Coin
  Nothing = Nothing
  FaucetTries = 1
  MaxAsks = 3
  MaxMoves = 1
INVARIANTS
  PaysWhoWasAgreed
  SpendsWhatWasShown
PROPERTY EveryRequestAnswered
CHECK_DEADLOCK FALSE
