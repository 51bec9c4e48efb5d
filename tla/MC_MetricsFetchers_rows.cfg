CONSTANTS
  Kinds <- DkgsAndBalance
  Fetchers = {"dkg", "balance"}
  Groups <- Alone
  Direct = {"balance"}
  Payloads = {1, 2}
  Nil = Nil
  Capacity = 2
  MaxChanges = 2
  MaxFailures = 1
  MaxStarts = 1
SPECIFICATION HangingSpec
INVARIANT
  RowsInv
PROPERTIES
  LatestIsStored
  StopHangsOnSend
  StuckIsReported
CHECK_DEADLOCK FALSE
