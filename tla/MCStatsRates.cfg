SPECIFICATION Spec
CONSTANTS
  None = None
  Lists = {None, l1}
  MaxErrors = 2
  MaxTicks = 6
  MaxTraffic = 3
INVARIANTS RateExplained UnmarkedIsTrue RecoveryAnnounced
