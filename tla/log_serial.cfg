\* One handle appends, removes and crashes: the log is an atomic set of records.
SPECIFICATION Spec
CONSTANTS
  h1 = h1
  h2 = h2
  h3 = h3
  stays = stays
  old1 = old1
  old2 = old2
  old3 = old3
  new1 = new1
  new2 = new2
  new3 = new3
  new4 = new4
  Clean = Clean
  Partial = Partial
  NoFile = NoFile
  Handle = {h1}
  Pid = {h1}
  PidOf <- OwnProcess
  Record <- MCRecord
  Initial <- MCInitial
  Appends <- EachAppends
  Removals <- FirstRemoves
  Newer = {}
  MayFail = TRUE
  MaxTears = 0
INVARIANTS
  AddedStaysIn
PROPERTY Promise
CHECK_DEADLOCK FALSE
