\* A token row is picked while a transfer is being priced.
SPECIFICATION Spec
CONSTANTS
  a = a
  b = b
  dev = dev
  test = test
  usdc = usdc
  Account = {a, b}
  Network = {dev, test}
  Token = {usdc}
  Home <- MCHome
  Movable = {usdc}
  Automatic = {dev}
  Shop = Shop
  Coin = Coin
  Nothing = Nothing
  FaucetTries = 1
  MaxAsks = 3
  MaxMoves = 1
INVARIANT SpendsTheAssetShown
CHECK_DEADLOCK FALSE
