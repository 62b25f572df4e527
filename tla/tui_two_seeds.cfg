\* Two seeds share an index, and a row.
SPECIFICATION Spec
CONSTANTS
  None = None
  ChainList <- MCChainList
  Network <- OneEach
  ChainOfNetwork <- OneEachChain
  DefaultOn <- MCDefaultOn
  DefaultNetwork <- MCDefaultNetwork
  Phrase = {"p1", "p2"}
  Key = {}
  Index <- ZeroOnly
  Recipient = {}
  Keys = {"new wallet", "new seed", "remove"}
  Others = {}
  Overrides = {}
  MaxAccounts = 4
  MaxJobs = 0
PROPERTY RemovesOneWallet
