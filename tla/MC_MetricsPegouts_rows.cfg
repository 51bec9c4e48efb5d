CONSTANTS
  p = p
  q = q
  r = r
  None = None
  Pegouts = {p, q, r}
  Inputs <- TwoAndOne
  Depends <- Chained
  Refusable = {p, q}
  Limit = 2
  MaxLosses = 1
  MaxEvictions = 1
  MaxRestarts = 1
  Warn = 1
  Crit = 2
  QueryLimit = 1
  MaxAlertFaults = 1
SPECIFICATION MCSpec
INVARIANTS
  PegoutsWithAlertsInv
  StoredIsSigned
PROPERTIES
  StatusAdvances
  SignedPegoutsAreConfirmed
  MempoolAlertIsFounded
  UnpassedIsReported
CHECK_DEADLOCK FALSE
