SPECIFICATION Spec
CONSTANTS
  Networks <- MCNetworks
  Tokens <- MCTokens
  Alias <- MCAlias
  ChainWord <- MCChainWord
  AccountOn <- MCAccountOn
  Env <- MCEnv
  SubmitEnv <- MCSubmitEnv
  Commands <- MCCommands
  Answers <- MCAnswers
  Grid = 4
  PlainGas = 2
  FallbackGas = 6
  Rent = 3
  TokenRent = 4
  Procs = {p1, p2}
  MaxCommands = 1
  CoinFees = {1, 2, 3}
  Typed = {"tokens"}
INVARIANT ReportReadsBack
SYMMETRY Either
CHECK_DEADLOCK FALSE
