CONSTANTS
  a = a
  Ids = {a}
  Callers = {"c1", "c2"}
  Period <- OnlyA
  ScanPeriod = 1
  FirePeriod = 3
  SelfPeriod = 2
  MaxStall = 1
  Horizon = 7
  None = None
SPECIFICATION Spec
INVARIANT
  OverdueIsReported
PROPERTIES
  FiresAreSpaced
  SilenceIsReal
