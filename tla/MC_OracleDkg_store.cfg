CONSTANTS
  Idx <- TwoOracles
  Faulty <- NoFaulty
  Unstable = {}
  MaxUntil = 1
  MaxCrashes = 0
  StoreMayFail = TRUE
  MaxMisreads = 0
  None = None
  Garbage = Garbage
SPECIFICATION Spec
INVARIANT RecordedKeyIsStored
