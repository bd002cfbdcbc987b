SPECIFICATION Spec
CONSTANTS
  Readers = {r1, r2}
  Buffers = {b1, b2}
  None = None
  Marker = Marker
  Kinds <- MCKinds
  Searches <- MCSearches
  DefaultLines = 1
  LinesCap = 2
  MaxSearch = 3
  MaxBytes = 2
  TooLarge = 2
  MaxLog = 3
SYMMETRY Sym
INVARIANTS TailExact SearchCut
