SPECIFICATION FairSpec
CONSTANTS
  k1 = k1
  gateway = gateway
  t1 = t1
  t2 = t2
  Turns = {t1, t2}
  Kinds <- MCKinds
  Want <- MCWant
  FlagSettings <- MCFlags
  Loop = loop
  Worker = worker
  Keys = {k1}
  Global = gateway
  Cap <- MCCap
  InputLimit = 2
  Uses <- MCUses
  MaxDay = 2
  MaxUnreserved = 1
  MaxFaults = 1
INVARIANTS
  HeldByTurn
  NothingUnvetted
  RememberedHonestly
PROPERTIES
  LedgerSpec
  KeepsPromise
  EventuallySettled
CHECK_DEADLOCK FALSE
