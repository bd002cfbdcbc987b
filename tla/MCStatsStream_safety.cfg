SPECIFICATION SSSpec
CONSTANTS
  Conns = {c1, c2}
  Data = {d1}
  Unmarshalable = {}
  Degraded = Degraded
  None = None
  ChanCap = 1
  MaxErrors = 1
  CallbacksPanic = FALSE
  MaxTicks = 3
  MaxConns = 1
SYMMETRY Symmetry
INVARIANTS
  SlotAccounting
  CancelledAfterCloseAll
  SubscribedOnlyWhileHeld
  NoLostUpdate
