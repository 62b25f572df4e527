\* One process removes while two others append, with a torn write.
SPECIFICATION Spec
CONSTANTS
  h1 = h1
  h2 = h2
  h3 = h3
  stays = stays
  old1 = old1
  old2 = old2
  old3 = old3
  new1 = new1
  new2 = new2
  new3 = new3
  new4 = new4
  Clean = Clean
  Partial = Partial
  NoFile = NoFile
  Handle = {h1, h2, h3}
  Pid = {h1, h2, h3}
  PidOf <- OwnProcess
  Record <- MCRecord
  Initial <- MCInitial
  Appends <- EachAppends
  Removals <- FirstRemoves
  Newer = {}
  MayFail = TRUE
  MaxTears = 1
INVARIANTS
  BystandersSurvive
  RemovedStaysOut
CHECK_DEADLOCK FALSE
