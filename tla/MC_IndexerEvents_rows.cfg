CONSTANTS
  teleport = teleport
  coordinator = coordinator
  burn = burn
  reinit = reinit
  again = again
  key = key
  addr1 = addr1
  addr2 = addr2
  NoAddr = NoAddr
  None = None
  Events <- AllEvents
  Contracts <- TwoContracts
  Chain <- FourAndOne
  PegoutEvents <- PegoutEventsOf
  KeyEvents = {key}
  Addr <- TwoWithout
  Limit = 2
  TxChanSize = 1
  RawChanSize = 1
  Workers = 2
  MaxLosses = 1
  MaxRestarts = 1
SPECIFICATION FairSpec
INVARIANTS
  EventsInv
  EveryEventIsInOnePlace
PROPERTIES
  LedgerSpec
  LedgerIsKept
CHECK_DEADLOCK FALSE
