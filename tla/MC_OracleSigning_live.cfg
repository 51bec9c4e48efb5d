CONSTANTS
  Idx <- TwoOracles
  Faulty <- NoFaulty
  Unstable = {0}
  Masks <- AnyOfTwo
  MaxPegouts = 1
  MaxAttempts = 2
  MaxCrashes = 1
  ZeroOnReset = FALSE
  StoreMayFail = FALSE
  None = None
  Garbage = Garbage
  Unparsable = Unparsable
SPECIFICATION FairSpec
INVARIANTS
  NonceUsedOnce
  ShareIsOfRecord
PROPERTY
  PegoutsAreSigned
