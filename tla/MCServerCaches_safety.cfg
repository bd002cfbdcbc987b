SPECIFICATION Spec
CONSTANTS
  Reqs = {r1, r2, r3}
  None = None
  ObsTTL = 1
  HealthTTL = 1
  HealthFailTTL = 0
  MaxTime = 1
  MaxDrift = 1
SYMMETRY Sym
INVARIANTS SwitchReflected StatusesNeverGoBack EmptyOnlyClearedOrExpired
