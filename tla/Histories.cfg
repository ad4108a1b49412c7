\* One place in the queue, two ETFs, a failing one first.
SPECIFICATION FairSpec
CONSTANTS
  Etfs = {1, 2}
  Class <- MCClass
  Removable = {2}
  Unreachable = {1}
  FirstTarget = 2
  LastDay = 3
  Window = 3
  Overlap = 1
  MaxGap = 1
  FullEvery = 2
  Capacity = 1
  Bases = {"eastmoney", "tencent"}
  Rich = {"eastmoney"}
  MaxTakeovers = 1
INVARIANTS
  OneBase
  RowIsTrue
PROPERTIES
  
  HistoriesArrive
