SPECIFICATION Spec
CONSTANTS
  Addrs = {p, a}
  Proxy = p
  Reqs = {r1, r2}
  TrustProxy = TRUE
  Limit = 2
  Window = 2
  MaxTracked = 1
  FailLimit = 2
  BlockWindow = 2
  NoCredLimit = 1
  NoCredWindow = 1
  CleanupInterval = 2
  MaxTime = 7
  MaxRequests = 5
SYMMETRY Sym
INVARIANTS SlidingBound RefusedJustly BlockedJustly AttemptsBounded TablesBounded
PROPERTIES BlockKept
