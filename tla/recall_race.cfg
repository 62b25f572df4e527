\* Two processes over a log of an older binary.
SPECIFICATION RecallSpec
CONSTANTS
  Handle = {"h1", "h2"}
  Secret <- MCSecret
  PassOf <- MCPassOf
  KindOf <- MCKindOf
  NoPass = ""
  Initial <- OlderLog
  MaxTime = 1
  MaxLines = 2
INVARIANTS
  RestoredWasUsed
PROPERTIES
  ForgetsTheOneShown
CHECK_DEADLOCK FALSE
