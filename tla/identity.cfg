\* Keys through two homes, a file, and messages between them.
SPECIFICATION Spec
CONSTANTS
  h1 = h1
  h2 = h2
  None = None
  Hardened = 5000
  MaxIndex = 9999
  NetworkList <- MCNetworkList
  Plain = "plain"
  Writer = {h1, h2}
  Path = {"wallets"}
  Home = {h1, h2}
  Seeds = {"phrase"}
  Indexes = {0, 5000}
  Texts <- MCTexts
  Message = {"signed"}
  Altered = {"altered"}
  MaxAccounts = 2
  MaxCreated = 2
SYMMETRY Symmetry
INVARIANTS
  StaysTheSameAccount
  VerdictIsTrue
  KeysStayPrivate
  EveryAddressIsWritten
CHECK_DEADLOCK FALSE
