CONSTANTS
  Idx <- ThreeOracles
  Faulty <- FirstIsFaulty
  Unstable = {}
  Masks <- AnyOfThree
  MaxPegouts = 1
  MaxAttempts = 1
  MaxCrashes = 0
  ZeroOnReset = TRUE
  StoreMayFail = TRUE
  None = None
  Garbage = Garbage
  Unparsable = Unparsable
SPECIFICATION FairSpec
INVARIANTS
  HonestIsNotBlamed
PROPERTY
  SignedIsValid
  WrongPieceIsClaimed
