\* Every command, key and prompt of the pane; the clipboard changes.
SPECIFICATION PaneSpec
CONSTANTS
  None = None
  Networks <- MCNetworks
  Tokens <- MCTokens
  Terms = {"main", "evm", "list"}
  Words <- MCWords
  Texts = {"mine", "theirs", "a phrase", "wallets.csv"}
  Takes = {"mine", "theirs"}
  Own = {"mine"}
  Suggested <- MCSuggested
  MaxTerms = 2
  MaxItems = 2
  MaxPrompts = 3
INVARIANTS
  NothingLingers
  RunsWhatIsAimedAt
CHECK_DEADLOCK FALSE
