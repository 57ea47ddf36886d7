CONSTANTS
  Size = 3
  Weight <- Weights
  Threads = {t1, t2}
  Leases = {l1, l2, l3}
  None = None
SPECIFICATION Spec
SYMMETRY Symmetric
INVARIANTS
  TypeOK
  ActiveCountsLeases
  ReleaseNeverSkips
  BestInRotation
