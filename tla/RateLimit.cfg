SPECIFICATION Spec
CONSTANTS
  IPs = {k1, k2}
  Users = {u1}
  Workers = {w1, w2}
  None = None
  Cost = 1
  Capacity = 2
  MaxBuckets = 2
  ExpireDur = 4
  MaxStall = 1
  BackoffBase = 1
  BackoffMax = 3
  MaxTime = 5
SYMMETRY Symmetry
INVARIANTS
  WindowBound
  LockoutBounded
