\* Wallets come and go under the screen.
SPECIFICATION Spec
CONSTANTS
  None = None
  ChainList <- MCChainList
  Network <- OneEach
  ChainOfNetwork <- OneEachChain
  DefaultOn <- MCDefaultOn
  DefaultNetwork <- MCDefaultNetwork
  Phrase = {"p1"}
  Key = {"k1"}
  Index <- ZeroOnly
  Recipient = {}
  Keys = {"new wallet", "import key", "derive", "new seed", "recall", "remove", "quit"}
  Others = {"new", "remove"}
  Overrides = {}
  MaxAccounts = 3
  MaxJobs = 0
INVARIANTS
  CursorIsTheRow
PROPERTIES
  NewWalletIsNew
  RemovesWhatItAsked
