CONSTANTS
  d1 = d1
  d2 = d2
  d3 = d3
  Deposits = {d1, d2, d3}
  Small = {d2}
  QueueSize = 2
  BatchSize = 3
  Capacities = {2, 3}
  Reclaim = TRUE
  MaxKeys = 2
  MaxEvictions = 1
  MaxLosses = 1
  MaxRestarts = 1
  None = None
SPECIFICATION MCSpec
INVARIANTS
  MintInv
  RefundIsJustified
PROPERTIES
  SuccessIsFinal
  RowsAreSettled
CHECK_DEADLOCK FALSE
