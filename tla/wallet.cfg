\* A home used in order, and one two processes use at once.
SPECIFICATION Spec
CONSTANTS
  h1 = h1
  h2 = h2
  Unset = Unset
  Handle = {h1, h2}
  ChainList <- MCChainList
  Network <- MCNetwork
  ChainOfNetwork <- MCChainOfNetwork
  DefaultOn <- MCDefaultOn
  DefaultNetwork <- MCDefaultNetwork
  Phrase = {"p1", "p2"}
  Key = {"k1"}
  Lower <- MCLower
  Settings <- BothWays
  MaxCommands = 3
INVARIANTS
  PositionAgrees
  NoTwins
  EveryWalletHasItsFace
  MoveRepairs
CHECK_DEADLOCK FALSE
