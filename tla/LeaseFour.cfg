\* Four processes: two reclaim the same dead lease.
SPECIFICATION LeaseSpec
CONSTANTS
  p1 = p1
  p2 = p2
  p3 = p3
  p4 = p4
  Proc <- Four
  Sees <- TwoSee
  MaxClaims = 1
  MaxDeaths = 1
INVARIANTS
  MutualExclusion
\* Every process may be dead or have made its last claim.
CHECK_DEADLOCK FALSE
