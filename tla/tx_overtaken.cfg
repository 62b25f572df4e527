\* A look-up that overtakes the reply to the send.
SPECIFICATION Spec
CONSTANTS
  h1 = h1
  h2 = h2
  p = p
  q = q
  None = None
  Handle = {h1, h2}
  Payment = {p, q}
  Token = {}
  MaxNonce = 1
  MaxSends = 1
  MaxPolls = 1
  MayCrash = FALSE
PROPERTY StaysInStep
CHECK_DEADLOCK FALSE
