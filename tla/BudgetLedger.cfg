SPECIFICATION Spec
CONSTANTS
  k1 = k1
  gateway = gateway
  r1 = r1
  r2 = r2
  loop = loop
  worker = worker
  Keys = {k1}
  Global = gateway
  Rids = {r1, r2}
  Threads = {loop, worker}
  Cap <- MCCap
  InputLimit = 3
  Requests <- MCRequests
  Uses <- MCUses
  MaxDay = 2
  MaxUnreserved = 1
  MaxFaults = 1
SYMMETRY RidSymmetry
INVARIANTS
  TypeOK
  Conservation
  CapHonoured
CHECK_DEADLOCK FALSE
