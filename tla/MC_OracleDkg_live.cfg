CONSTANTS
  Idx <- TwoOracles
  Faulty <- NoFaulty
  Unstable = {0}
  MaxUntil = 1
  MaxCrashes = 1
  StoreMayFail = FALSE
  MaxMisreads = 0
  None = None
  Garbage = Garbage
SPECIFICATION FairSpec
INVARIANTS
  RecordedKeyIsStored
  BlameIsFounded
PROPERTY LastAttemptFinishes
