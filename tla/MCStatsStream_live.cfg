SPECIFICATION SSFairSpec
CONSTANTS
  Conns = {c1, c2}
  Data = {d1}
  Unmarshalable = {}
  Degraded = Degraded
  None = None
  ChanCap = 1
  MaxErrors = 1
  CallbacksPanic = FALSE
  MaxTicks = 0
  MaxConns = 2
PROPERTIES
  ShutdownDrains
  SlotReleased
