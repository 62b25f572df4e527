\* Threads at work; another process switches networks.
SPECIFICATION Spec
CONSTANTS
  None = None
  ChainList <- MCChainList
  Network <- OneEach
  ChainOfNetwork <- OneEachChain
  DefaultOn <- MCDefaultOn
  DefaultNetwork <- MCDefaultNetwork
  Phrase = {"p1"}
  Key = {}
  Index <- ZeroOnly
  Recipient = {"a"}
  Keys = {"import", "balance", "token balance", "send", "network", "activate", "secrets",
    "quit", "reload"}
  Others = {"network"}
  Overrides = {}
  MaxAccounts = 2
  MaxJobs = 2
INVARIANTS
  ConfirmsWhatWasTyped
  WaitsForTheHighlighted
PROPERTIES
  WaitEnds
