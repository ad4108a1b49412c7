\* Two channels and a configuration that changes twice.
SPECIFICATION Spec
CONSTANTS
  Channels = {c1, c2}
  c1 = c1
  c2 = c2
  Batch = 2
  MaxFills = 2
  MaxVersion = 3
  MaxTests = 0
INVARIANTS
  TypeOK
  HistoryIsTrue
  PendingIsCurrent
PROPERTIES
  KeepsPromise
