\* Another wallet is picked while a confirmed transfer waits for the worker.
SPECIFICATION Spec
CONSTANTS
  a = a
  b = b
  dev = dev
  test = test
  usdc = usdc
  Account = {a, b}
  Network = {dev, test}
  Token = {usdc}
  Home <- MCHome
  Movable = {usdc}
  Automatic = {dev}
  Shop = Shop
  Coin = Coin
  Nothing = Nothing
  FaucetTries = 1
  MaxAsks = 3
  MaxMoves = 1
INVARIANT SpendsFromWhoItNames
CHECK_DEADLOCK FALSE
