CONSTANTS
  Torn = Torn
  None = None
  Sessions = {"u1"}
  Secrets = {"k1"}
  Shares = {"p1", "p2"}
  MaxFresh = 3
  MaxFaults = 1
  MaxChmods = 1
  MaxRestarts = 1
SPECIFICATION Spec
INVARIANT
  FilesInv
PROPERTY
  LoadFindsLastStore
CHECK_DEADLOCK FALSE
