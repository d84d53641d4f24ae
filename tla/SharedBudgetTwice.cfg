SPECIFICATION Spec
CONSTANTS
  k1 = k1
  gateway = gateway
  w1 = w1
  w2 = w2
  r1 = r1
  r2 = r2
  r3 = r3
  Workers = {w1, w2}
  Keys = {k1}
  Global = gateway
  Rids = {r1, r2}
  Cap <- MCCap
  Requests <- MCRequests
  Uses = {1, 3}
  MaxDay = 1
  MaxOutages = 1
  MaxFaults = 1
INVARIANTS
  RefundedOnce
CHECK_DEADLOCK FALSE
