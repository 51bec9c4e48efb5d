CONSTANTS
  Idx <- TwoOracles
  Faulty <- SecondIsFaulty
  Unstable = {0}
  MaxUntil = 2
  MaxCrashes = 1
  StoreMayFail = TRUE
  MaxMisreads = 1
  None = None
  Garbage = Garbage
SPECIFICATION FairSpec
INVARIANTS
  DkgInv
  SessionKeyIsKept
PROPERTIES
  CeremonySpec
  CulpritIsClaimed
