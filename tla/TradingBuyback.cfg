\* A profit order before a round trip.
SPECIFICATION OneWorkerSpec
CONSTANTS
  MaxHeld = 2
  MaxTarget = 3
  Lot = 1
  MaxDaily = 2
  TCycles = 1
  TDivisor = 2
  CoreParts = 2
  CoreWhole = 3
  Settlement = 1
  Ratios = {}
  Signals = {"t_sell", "profit"}
INVARIANTS
  BuybackSlotReserved
