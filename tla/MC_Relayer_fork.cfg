CONSTANTS
  p = p
  q = q
  None = None
  Genesis = 0
  Blocks <- Fork
  Parent <- ForkParent
  Includes <- ForkIncludes
  Pegouts = {p, q}
  ConfirmationsNeeded = 2
  MaxMail = 2
  MaxReorgs = 1
  MaxLosses = 1
  MaxRestarts = 1
SPECIFICATION FairSpec
INVARIANTS
  HeadersInv
  ProofsAreConfirmed
PROPERTIES
  ContractFollows
  PegoutIsProven
CHECK_DEADLOCK FALSE
