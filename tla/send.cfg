\* Two processes pay; crashes, lost and late requests. The fairness is that of
\* a command once confirmed; no symmetry, since Returns is a liveness property.
SPECIFICATION FairSpec
CONSTANTS
  h1 = h1
  h2 = h2
  p = p
  q = q
  None = None
  Handle = {h1, h2}
  Payment = {p, q}
  Token = {}
  MaxNonce = 1
  MaxSends = 3
  MaxPolls = 1
  MayCrash = TRUE
INVARIANTS
  RecordedBeforeBroadcast
  PaidOnce
  NeverAhead
PROPERTY Returns
CHECK_DEADLOCK FALSE
