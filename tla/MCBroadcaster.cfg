SPECIFICATION FairSpec
CONSTANTS
  Conns = {c1, c2}
  Data = {d1, d2}
  Unmarshalable = {d2}
  Degraded = Degraded
  None = None
  ChanCap = 2
  MaxErrors = 2
  CallbacksPanic = TRUE
  MaxTicks = 3
INVARIANTS
  TypeOK
  AtMostOneLoop
  NoSendOnClosed
  StopChOpen
  ClosedAfterStop
  ServedOrStarting
PROPERTIES
  ImplementsFeed
  StopReturns
  SubscribeEnds
  IdleLoopEnds
  Served
