SPECIFICATION Spec
CONSTANTS
  k1 = k1
  gateway = gateway
  w1 = w1
  w2 = w2
  r1 = r1
  r2 = r2
  r3 = r3
  Workers = {w1, w2}
  Keys = {k1}
  Global = gateway
  Rids = {r1, r2, r3}
  Cap <- MCCap
  Requests <- MCRequests
  Uses = {3}
  MaxDay = 2
  MaxOutages = 1
  MaxFaults = 1
SYMMETRY MCSymmetry
INVARIANTS
  CapTwiceAtMost
  ExactWhileCalm
  NoUndercount
CHECK_DEADLOCK FALSE
