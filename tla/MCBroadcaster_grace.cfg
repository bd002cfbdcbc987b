SPECIFICATION Spec
CONSTANTS
  Conns = {c1, c2}
  Data = {d1, d2}
  Unmarshalable = {}
  Degraded = Degraded
  None = None
  ChanCap = 1
  MaxErrors = 2
  CallbacksPanic = TRUE
  MaxTicks = 1
PROPERTIES
  IdleGraceHonoured
