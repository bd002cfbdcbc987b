SPECIFICATION Spec
CONSTANTS
  Inits = {i1, i2}
  None = None
  ToLower <- MCToLower
  TagBytes <- MCTagBytes
  Plain <- MCPlain
  XrayOutbounds <- MCOutbounds
  TagOrder <- MCTagOrder
  Targets = {"", "x", "a b", "long"}
  Observed <- MCObserved
  Finds <- MCFinds
  FirstFound <- MCFirst
  MaxRounds = 2
  MaxProbes = 1
  MaxReloads = 1
INVARIANTS NeverStuck OnePolling PromptJustified
PROPERTIES PollingEnds
